---- MODULE Spec2Model ----
(***************************************************************************)
(* The sensing-and-alerting core of hisyotan: the Notification Arbiter     *)
(* (NotificationManager), the monitoring loop's confirmation and reaction  *)
(* stages, the Performance Governor, the manual trigger endpoint and the   *)
(* start/stop protocol of the monitoring task.                             *)
(*                                                                         *)
(* Time is counted in ticks of half a second (TicksPerSecond), the finest  *)
(* resolution any constant of the code needs (the 0.5 s playback margin    *)
(* and the 0.5 s follow-up delay).  Probabilities are in percent,          *)
(* intervals of the performance profile in milliseconds and resize         *)
(* factors in thousandths.                                                 *)
(***************************************************************************)
EXTENDS Integers, Sequences, FiniteSets, TLC

VARIABLES
    \* ---- wall clock (time.time()) ----
    now,
    ticks,
    \* ---- NotificationManager (modules/zombie/notification.py) ----
    lock,
    notification_active,
    last_notification_time,
    notification_id,
    last_notification_by_type,
    active_sources,
    audio_playing,
    audio_play_start_time,
    estimated_audio_duration,
    last_source_time,
    min_source_interval,
    \* ---- callers of the manager: position, arguments, last return ----
    apc,
    acall,
    ret,
    grants_since_release,
    ledger,
    \* ---- ZombieDetector: confirmation and reaction stages ----
    detection_history,
    required_consecutive_detections,
    cooldown_timestamps,
    lpc,
    cur,
    fired,
    frames,
    \* ---- performance settings and the CPU governor ----
    revision,
    PERFORMANCE_SETTINGS,
    adaptive_interval,
    resize_factor,
    skip_ratio,
    cpu_threshold,
    adjusted,
    cpu_percent,
    \* ---- manual trigger endpoints and the alert handlers' debounce ----
    last_callback_times,
    request,
    handled,
    \* ---- start_monitoring / stop_monitoring ----
    is_monitoring,
    model,
    monitor_task,
    tasks,
    cpc,
    awaited,
    \* ---- _monitor_loop: position, frame counter, last iteration ----
    mpc,
    frame_count,
    last_cpu_check_time,
    iter,
    \* ---- FunyaWatcher (modules/funya_watcher/funya_watcher.py) ----
    wclock,
    inactivity_threshold,
    last_activity_time,
    is_watching,
    is_in_funya_mode,
    wpc,
    watched,
    \* ---- the voice modules' duplicate filter (modules/voice/player.py) ----
    last_message_cache,
    checked,
    \* ---- start_zombie_monitoring (events/startup_handler.py) ----
    startup,
    \* ---- ConnectionManager (ws/manager.py) ----
    active_connections,
    broadcasting,
    \* ---- FunyaWatcher: its threads one statement at a time ----
    mthreads,
    listeners,
    calls

clockVars == <<now, ticks>>

managerVars ==
    <<notification_active, last_notification_time, notification_id,
      last_notification_by_type, active_sources, audio_playing,
      audio_play_start_time, estimated_audio_duration, last_source_time,
      min_source_interval>>

callerVars == <<lock, apc, acall, ret, grants_since_release, ledger>>

detectorVars ==
    <<detection_history, required_consecutive_detections, cooldown_timestamps,
      lpc, cur, fired, frames>>

governorVars ==
    <<revision, PERFORMANCE_SETTINGS, adaptive_interval, resize_factor,
      skip_ratio, cpu_threshold, adjusted, cpu_percent>>

triggerVars == <<last_callback_times, request, handled>>

monitorVars == <<is_monitoring, model, monitor_task, tasks, cpc, awaited>>

iterationVars == <<mpc, frame_count, last_cpu_check_time, iter>>

watcherVars ==
    <<wclock, inactivity_threshold, last_activity_time, is_watching,
      is_in_funya_mode, wpc, watched>>

voiceVars == <<last_message_cache, checked>>

startupVars == <<startup>>

wsVars == <<active_connections, broadcasting>>

threadVars == <<mthreads, listeners, calls>>

serviceVars == <<voiceVars, startupVars, wsVars, threadVars>>

vars ==
    <<clockVars, managerVars, callerVars, detectorVars, governorVars,
      triggerVars, monitorVars, iterationVars, watcherVars, serviceVars>>

\* what the manager's methods, the detector's stages, the governor, the
\* trigger endpoints and start/stop leave alone
outsideArbiter ==
    <<detectorVars, governorVars, triggerVars, monitorVars, iterationVars,
      watcherVars, serviceVars>>
outsideLoop ==
    <<governorVars, triggerVars, monitorVars, iterationVars, watcherVars, serviceVars>>
outsideGovernor ==
    <<clockVars, managerVars, callerVars, detectorVars, triggerVars, monitorVars,
      iterationVars, watcherVars, serviceVars>>
outsideTrigger ==
    <<managerVars, callerVars, detectorVars, governorVars, monitorVars,
      iterationVars, watcherVars, serviceVars>>
outsideMonitor ==
    <<clockVars, managerVars, callerVars, detectorVars, governorVars, triggerVars,
      iterationVars, watcherVars, serviceVars>>
outsideIteration == <<managerVars, callerVars, triggerVars, watcherVars, serviceVars>>
outsideWatcher ==
    <<clockVars, managerVars, callerVars, detectorVars, governorVars, triggerVars,
      monitorVars, iterationVars, serviceVars>>
outsideVoice ==
    <<managerVars, callerVars, detectorVars, governorVars, triggerVars,
      monitorVars, iterationVars, watcherVars, startupVars, wsVars, threadVars>>
outsideStartup ==
    <<clockVars, managerVars, callerVars, detectorVars, governorVars, triggerVars,
      monitorVars, iterationVars, watcherVars, voiceVars, wsVars, threadVars>>
outsideWs ==
    <<clockVars, managerVars, callerVars, detectorVars, governorVars, triggerVars,
      monitorVars, iterationVars, watcherVars, voiceVars, startupVars,
      threadVars>>
outsideThreads ==
    <<clockVars, managerVars, callerVars, detectorVars, governorVars, triggerVars,
      monitorVars, iterationVars, voiceVars, startupVars, wsVars>>

----------------------------------------------------------------------------
(* Bounds of the model *)

MaxTicks == 2
MaxGrants == 2
StartTime == 200
MaxFrames == 2
MaxHistoryFrames == 5
MaxRequired == 4
MaxIterations == 3
MaxLoopFrames == 5
MaxWatchSeconds == 8
MaxConnections == 3
MaxMonitors == 2

----------------------------------------------------------------------------
(* Constants of the program *)

TicksPerSecond == 2

GLOBAL_NOTIFICATION_INTERVAL == 5 * TicksPerSecond

type_cooldown ==
    [many |-> 30 * TicksPerSecond,
     warning |-> 40 * TicksPerSecond,
     few |-> 30 * TicksPerSecond]

DEFAULT_TYPE_COOLDOWN == 20 * TicksPerSecond

DEFAULT_MIN_SOURCE_INTERVAL == 1 * TicksPerSecond

DEFAULT_AUDIO_DURATION == 3 * TicksPerSecond

\* mutant: the estimate is the duration given, without the margin
AUDIO_MARGIN_None == 0 * TicksPerSecond

AUDIO_MARGIN == TicksPerSecond \div 2

----------------------------------------------------------------------------
(* Inputs *)

Threads == {"t1", "t2"}
NoThread == "none"
Sources == {"detector", "manual"}
NoType == "none"
DetectionTypes == {"many", "warning", "few", "presence", NoType}

\* The clock advances by a step that reaches one of the code's thresholds
\* exactly or falls half a second short of it.
Thresholds ==
    {GLOBAL_NOTIFICATION_INTERVAL} \cup {type_cooldown[k] : k \in DOMAIN type_cooldown}

TickSteps == Thresholds \cup {p - 1 : p \in Thresholds}

NoReturn ==
    [op |-> "none", ok |-> FALSE, reason |-> "none", changed |-> {}, id |-> 0,
     source |-> "none", detection_type |-> NoType, at |-> 0]

\* what the callers have seen so far: the ids granted, when each source was
\* last granted, and the last playback registered
NoLedger ==
    [ids |-> {}, earlier |-> {}, granted_at |-> [k \in {} |-> 0],
     registered |-> FALSE, playback_at |-> 0, playback_duration |-> 0]
NoCall == [source |-> "none", detection_type |-> NoType, current_time |-> 0]

----------------------------------------------------------------------------
(* NotificationManager.__init__ *)

ManagerInitWith(source_interval) ==
    /\ notification_active = FALSE
    /\ last_notification_time = 0
    /\ notification_id = 0
    /\ last_notification_by_type = [k \in {"many", "warning", "few"} |-> 0]
    /\ active_sources = {}
    /\ audio_playing = FALSE
    /\ audio_play_start_time = 0
    /\ estimated_audio_duration = 0
    /\ last_source_time = [k \in {} |-> 0]
    /\ min_source_interval = source_interval

ManagerInit == ManagerInitWith(DEFAULT_MIN_SOURCE_INTERVAL)

CallerInit ==
    /\ lock = NoThread
    /\ apc = [t \in Threads |-> "idle"]
    /\ acall = [t \in Threads |-> NoCall]
    /\ ret = NoReturn
    /\ grants_since_release = 0
    /\ ledger = NoLedger

ClockInit ==
    /\ now = StartTime
    /\ ticks = 0

\* time passes
Tick(d) ==
    /\ ticks < MaxTicks
    /\ now' = now + d
    /\ ticks' = ticks + 1

----------------------------------------------------------------------------
(* try_acquire_notification: the five checks, in the code's order *)

\* mutant: the checks and the grant are not inside `with self.lock`
LockFree_NoMutex == TRUE

\* `with self.lock`: the mutex is free
LockFree == lock = NoThread

GlobalIntervalTooShort(t) ==
    t - last_notification_time < GLOBAL_NOTIFICATION_INTERVAL

AlreadyActive == notification_active

\* mutant: the per-source check is left out
SourceTooSoon_Never(source, t) == FALSE

SourceTooSoon(source, t) ==
    /\ source \in DOMAIN last_source_time
    /\ t - last_source_time[source] < min_source_interval

AudioStillPlaying(t) ==
    /\ audio_playing
    /\ t - audio_play_start_time < estimated_audio_duration

TypeCooldownOf(detection_type) ==
    IF detection_type \in DOMAIN type_cooldown
    THEN type_cooldown[detection_type]
    ELSE DEFAULT_TYPE_COOLDOWN

TypeCoolingDown(detection_type, t) ==
    /\ detection_type # NoType
    /\ detection_type \in DOMAIN last_notification_by_type
    /\ t - last_notification_by_type[detection_type] < TypeCooldownOf(detection_type)

\* which check denies the call, or "pass"
DenyReason(source, detection_type, t) ==
    IF GlobalIntervalTooShort(t) THEN "global"
    ELSE IF AlreadyActive THEN "active"
    ELSE IF SourceTooSoon(source, t) THEN "source"
    ELSE IF AudioStillPlaying(t) THEN "audio"
    ELSE IF TypeCoolingDown(detection_type, t) THEN "type"
    ELSE "pass"

\* mutant: the playback flag is cleared on every path through the checks
AudioFlagAfterChecks_Always(reason) == FALSE

\* line 116: the fourth check, when reached with the estimated playback time
\* over, clears the flag, whatever the fifth check answers
AudioFlagAfterChecks(reason) ==
    IF reason \in {"type", "pass"} THEN FALSE ELSE audio_playing

\* the fields of the manager a step writes a new value to
ManagerChanges ==
    (IF notification_active' # notification_active THEN {"notification_active"} ELSE {})
    \cup (IF last_notification_time' # last_notification_time
          THEN {"last_notification_time"} ELSE {})
    \cup (IF notification_id' # notification_id THEN {"notification_id"} ELSE {})
    \cup (IF last_notification_by_type' # last_notification_by_type
          THEN {"last_notification_by_type"} ELSE {})
    \cup (IF active_sources' # active_sources THEN {"active_sources"} ELSE {})
    \cup (IF audio_playing' # audio_playing THEN {"audio_playing"} ELSE {})
    \cup (IF audio_play_start_time' # audio_play_start_time
          THEN {"audio_play_start_time"} ELSE {})
    \cup (IF estimated_audio_duration' # estimated_audio_duration
          THEN {"estimated_audio_duration"} ELSE {})
    \cup (IF last_source_time' # last_source_time THEN {"last_source_time"} ELSE {})
    \cup (IF min_source_interval' # min_source_interval
          THEN {"min_source_interval"} ELSE {})

\* lines 73-130: the lock is taken, the checks are evaluated at current_time;
\* a denied call returns (False, 0) and frees the lock
TryAcquireCheck(t, source, detection_type) ==
    /\ apc[t] = "idle"
    /\ LockFree
    /\ UNCHANGED <<notification_active, last_notification_time, notification_id,
                   last_notification_by_type, active_sources,
                   audio_play_start_time, estimated_audio_duration,
                   last_source_time, min_source_interval, grants_since_release,
                   ledger, clockVars>>
    /\ LET reason == DenyReason(source, detection_type, now) IN
       /\ audio_playing' = AudioFlagAfterChecks(reason)
       /\ IF reason = "pass"
          THEN /\ notification_id < MaxGrants
               /\ lock' = t
               /\ apc' = [apc EXCEPT ![t] = "commit"]
               /\ acall' = [acall EXCEPT ![t] =
                     [source |-> source, detection_type |-> detection_type,
                      current_time |-> now]]
               /\ UNCHANGED ret
          ELSE /\ ret' = [op |-> "acquire", ok |-> FALSE, reason |-> reason,
                          changed |-> ManagerChanges, id |-> 0,
                          source |-> source, detection_type |-> detection_type,
                          at |-> now]
               /\ UNCHANGED <<lock, apc, acall>>

\* dict[key] = value
Put(f, key, value) ==
    [k \in DOMAIN f \cup {key} |-> IF k = key THEN value ELSE f[k]]

\* mutant: the counter is not advanced
NextId_Reused(id) == id

\* lines 152-153: self.notification_id += 1
NextId(id) == id + 1

\* lines 132-155: the grant, still under the lock
TryAcquireCommit(t) ==
    /\ apc[t] = "commit"
    /\ LET c == acall[t] IN
       /\ notification_active' = TRUE
       /\ last_notification_time' = c.current_time
       /\ last_source_time' = Put(last_source_time, c.source, c.current_time)
       /\ last_notification_by_type' =
             IF c.detection_type # NoType
             THEN Put(last_notification_by_type, c.detection_type, c.current_time)
             ELSE last_notification_by_type
       /\ active_sources' = active_sources \cup {c.source}
       /\ notification_id' = NextId(notification_id)
       /\ ret' = [op |-> "acquire", ok |-> TRUE, reason |-> "pass", changed |-> {},
                  id |-> NextId(notification_id),
                  source |-> c.source, detection_type |-> c.detection_type,
                  at |-> c.current_time]
       /\ ledger' = [ledger EXCEPT
                        !.ids = @ \cup {NextId(notification_id)},
                        !.earlier = ledger.ids,
                        !.granted_at = Put(@, c.source, c.current_time)]
    /\ lock' = NoThread
    /\ apc' = [apc EXCEPT ![t] = "idle"]
    /\ acall' = [acall EXCEPT ![t] = NoCall]
    /\ grants_since_release' = grants_since_release + 1
    /\ UNCHANGED <<audio_playing, audio_play_start_time,
                   estimated_audio_duration, min_source_interval, clockVars>>

\* release_notification(notification_id, source): the id is only logged
ReleaseEffect(id, source) ==
    IF notification_active
    THEN /\ notification_active' = FALSE
         /\ active_sources' = active_sources \ {source}
    ELSE UNCHANGED <<notification_active, active_sources>>

ReleaseNotification(t, id, source) ==
    /\ apc[t] = "idle"
    /\ LockFree
    /\ ReleaseEffect(id, source)
    /\ UNCHANGED <<last_notification_time, notification_id,
                   last_notification_by_type, audio_playing,
                   audio_play_start_time, estimated_audio_duration,
                   last_source_time, min_source_interval, lock, apc, acall,
                   ledger, clockVars>>
    /\ ret' = [op |-> "release", ok |-> notification_active, reason |-> "none",
               changed |-> ManagerChanges, id |-> id,
               source |-> source, detection_type |-> NoType, at |-> now]
    /\ grants_since_release' = 0

\* register_audio_playback(duration)
RegisterAudioPlayback(t, duration) ==
    /\ apc[t] = "idle"
    /\ LockFree
    /\ audio_playing' = TRUE
    /\ audio_play_start_time' = now
    /\ estimated_audio_duration' = duration + AUDIO_MARGIN
    /\ ret' = [op |-> "register", ok |-> TRUE, reason |-> "none", changed |-> {},
               id |-> 0, source |-> "none", detection_type |-> NoType, at |-> now]
    /\ ledger' = [ledger EXCEPT !.registered = TRUE, !.playback_at = now,
                                !.playback_duration = duration]
    /\ UNCHANGED <<notification_active, last_notification_time, notification_id,
                   last_notification_by_type, active_sources, last_source_time,
                   min_source_interval, lock, apc, acall, grants_since_release,
                   clockVars>>

\* the ids a caller may pass to release: the last one granted, the one before
\* it (already released or overtaken) and one never granted
ReleaseIds == {notification_id, notification_id + 1}
              \cup (IF notification_id > 0 THEN {notification_id - 1} ELSE {})

----------------------------------------------------------------------------
(* FunyaWatcher (modules/funya_watcher/funya_watcher.py): the listeners'    *)
(* threads call _on_activity, the monitor thread polls once a second.       *)
(* Times are in seconds.                                                    *)

POLL_SLEEP == 1

NothingWatched ==
    [enter |-> 0, exit |-> 0, gap |-> 0, entered_at |-> 0, wake_at |-> 0]

\* FunyaWatcher.__init__ with the default threshold of 5 s
WatcherInit ==
    /\ wclock = 0
    /\ inactivity_threshold = 5
    /\ last_activity_time = 0
    /\ is_watching = FALSE
    /\ is_in_funya_mode = FALSE
    /\ wpc = "none"
    /\ watched = NothingWatched

\* FunyaWatcher.__init__ with a threshold of the caller's
WatcherAnyInit ==
    /\ wclock = 0
    /\ inactivity_threshold \in {2, 5}
    /\ last_activity_time = 0
    /\ is_watching = FALSE
    /\ is_in_funya_mode = FALSE
    /\ wpc = "none"
    /\ watched = NothingWatched

\* start(): the listeners and the monitor thread are started; called when no
\* monitor thread of an earlier start is left.  The callbacks are counted
\* from the start on.
WatcherStart ==
    /\ ~is_watching
    /\ wpc \in {"none", "ended"}
    /\ is_watching' = TRUE
    /\ last_activity_time' = wclock
    /\ wpc' = "check"
    /\ watched' = NothingWatched
    /\ UNCHANGED <<wclock, inactivity_threshold, is_in_funya_mode, outsideWatcher>>

\* stop(): the listeners are stopped, the monitor thread is left to end
WatcherStop ==
    /\ is_watching
    /\ is_watching' = FALSE
    /\ UNCHANGED <<wclock, inactivity_threshold, last_activity_time,
                   is_in_funya_mode, wpc, watched, outsideWatcher>>

\* _on_activity, called by a listener for a key or mouse event
OnActivity ==
    /\ is_watching
    /\ last_activity_time' = wclock
    /\ is_in_funya_mode' = FALSE
    /\ watched' = IF is_in_funya_mode THEN [watched EXCEPT !.exit = @ + 1]
                  ELSE watched
    /\ UNCHANGED <<wclock, inactivity_threshold, is_watching, wpc, outsideWatcher>>

\* line 104: inactive_time >= self.inactivity_threshold
IdleLongEnough(inactive_time, threshold) == inactive_time >= threshold

\* lines 99-104: the while test and the test of the idle time
MonitorCheck ==
    /\ wpc = "check"
    /\ IF ~is_watching
       THEN /\ wpc' = "ended"
            /\ UNCHANGED watched
       ELSE IF IdleLongEnough(wclock - last_activity_time, inactivity_threshold)
               /\ ~is_in_funya_mode
       THEN /\ wpc' = "enter"
            /\ watched' = [watched EXCEPT !.gap = wclock - last_activity_time]
       ELSE /\ wpc' = "sleep"
            /\ watched' = [watched EXCEPT !.wake_at = wclock + POLL_SLEEP]
    /\ UNCHANGED <<wclock, inactivity_threshold, last_activity_time, is_watching,
                   is_in_funya_mode, outsideWatcher>>

\* lines 105-112: funya mode is entered, the message printed, the callback
\* called
MonitorEnter ==
    /\ wpc = "enter"
    /\ is_in_funya_mode' = TRUE
    /\ watched' = [watched EXCEPT !.enter = @ + 1, !.entered_at = wclock,
                                  !.wake_at = wclock + POLL_SLEEP]
    /\ wpc' = "sleep"
    /\ UNCHANGED <<wclock, inactivity_threshold, last_activity_time, is_watching,
                   outsideWatcher>>

\* line 115: time.sleep(1) returns, a second or more after it was called
MonitorWake ==
    /\ wpc = "sleep"
    /\ wclock >= watched.wake_at \/ wclock = MaxWatchSeconds
    /\ wpc' = "check"
    /\ UNCHANGED <<wclock, inactivity_threshold, last_activity_time, is_watching,
                   is_in_funya_mode, watched, outsideWatcher>>

\* a second passes: the monitor thread is asleep, or there is none; the
\* stretch between two sleeps takes no time, and the sleep ends when it is due
WatcherTick ==
    /\ wclock < MaxWatchSeconds
    /\ wpc \notin {"check", "enter"}
    /\ wpc = "sleep" => wclock < watched.wake_at
    /\ wclock' = wclock + 1
    /\ UNCHANGED <<inactivity_threshold, last_activity_time, is_watching,
                   is_in_funya_mode, wpc, watched, outsideWatcher>>

----------------------------------------------------------------------------
(* The voice modules' duplicate filter: is_message_duplicate of              *)
(* modules/voice/player.py (voice/engine.py has the same function over its   *)
(* own cache).  Times are in ticks.                                          *)

MessageTypes == {"zombie_alert", "zombie_confirm"}
Messages == {"a", "b"}
NoMessage == "none"

\* safe_play_voice passes 3.0, react_to_zombie passes 5.0
MessageCooldowns == {3 * TicksPerSecond, 5 * TicksPerSecond}

\* `message_type in last_message_cache` is false for NoMessage
EmptyCache == [k \in MessageTypes |-> [message |-> NoMessage, time |-> 0]]

\* the last check: its arguments, its answer, when the same message of the
\* type was last accepted before it, and when each message of each type was
\* last accepted (0: never)
NothingChecked ==
    [message_type |-> "none", message |-> NoMessage, cooldown |-> 0, at |-> 0,
     duplicate |-> FALSE, accepted_before |-> 0,
     accepted_at |-> [k \in MessageTypes |-> [msg \in Messages |-> 0]]]

VoiceInit ==
    /\ last_message_cache = EmptyCache
    /\ checked = NothingChecked

\* the test of is_message_duplicate: the cached entry of the type holds the
\* same message, stamped less than cooldown ago
IsDuplicate(cache, message_type, message, cooldown, current_time) ==
    /\ cache[message_type].message # NoMessage
    /\ cache[message_type].message = message
    /\ current_time - cache[message_type].time < cooldown

\* is_message_duplicate(message_type, message, cooldown)
IsMessageDuplicate(message_type, message, cooldown) ==
    LET dup == IsDuplicate(last_message_cache, message_type, message, cooldown, now) IN
    /\ last_message_cache' =
          IF dup THEN last_message_cache
          ELSE [last_message_cache EXCEPT
                   ![message_type] = [message |-> message, time |-> now]]
    /\ checked' =
          [message_type |-> message_type, message |-> message,
           cooldown |-> cooldown, at |-> now, duplicate |-> dup,
           accepted_before |-> checked.accepted_at[message_type][message],
           accepted_at |->
              IF dup THEN checked.accepted_at
              ELSE [checked.accepted_at EXCEPT ![message_type][message] = now]]
    /\ UNCHANGED <<clockVars, startupVars, wsVars, outsideVoice>>

VoiceTickSteps == MessageCooldowns \cup {c - 1 : c \in MessageCooldowns}

VoiceTick ==
    \E d \in VoiceTickSteps :
        Tick(d) /\ UNCHANGED <<voiceVars, startupVars, wsVars, outsideVoice>>

----------------------------------------------------------------------------
(* start_zombie_monitoring (events/startup_handler.py): the wait for the    *)
(* speech engine, then the start of the monitoring.  Times are in tenths of *)
(* a second.                                                                *)

max_wait == 150
FIRST_INTERVAL == 3
LATER_INTERVAL == 10
SWITCH_AFTER == 50
READY_TIMEOUT == 10

\* how long one call of is_voicevox_ready may take: at once, or up to the
\* one-second timeout of its request
PollDurations == {0, READY_TIMEOUT \div 2, READY_TIMEOUT}

\* pc: where the coroutine is; waited: the sum of the sleeps so far; elapsed:
\* the sleeps and the polls together; ready: the last answer of
\* is_voicevox_ready
NotStarted ==
    [pc |-> "none", wait_count |-> 0, interval |-> FIRST_INTERVAL, waited |-> 0,
     elapsed |-> 0, ready |-> FALSE, polls |-> 0]

StartupInit == startup = NotStarted

\* `while wait_count * interval < max_wait`
KeepsWaiting(wait_count, interval) == wait_count * interval < max_wait

\* the environment switch, and the first test of the loop condition
StartupBegin(enabled) ==
    /\ startup.pc = "none"
    /\ startup' =
          [startup EXCEPT
              !.pc = IF ~enabled THEN "disabled"
                     ELSE IF KeepsWaiting(0, FIRST_INTERVAL) THEN "poll"
                     ELSE "start"]
    /\ UNCHANGED <<voiceVars, wsVars, outsideStartup>>

\* `if await is_voicevox_ready(): break`
StartupPoll(ready, took) ==
    /\ startup.pc = "poll"
    /\ startup' =
          [startup EXCEPT
              !.pc = IF ready THEN "start" ELSE "sleep",
              !.ready = ready,
              !.polls = @ + 1,
              !.elapsed = @ + took]
    /\ UNCHANGED <<voiceVars, wsVars, outsideStartup>>

\* `await asyncio.sleep(interval); wait_count += 1`, the switch to the longer
\* interval, and the loop condition again
StartupSleep ==
    /\ startup.pc = "sleep"
    /\ LET count == startup.wait_count + 1
           interval == IF count * startup.interval > SWITCH_AFTER
                       THEN LATER_INTERVAL ELSE startup.interval
       IN
       startup' =
          [startup EXCEPT
              !.wait_count = count,
              !.interval = interval,
              !.waited = @ + startup.interval,
              !.elapsed = @ + startup.interval,
              !.pc = IF KeepsWaiting(count, interval) THEN "poll" ELSE "start"]
    /\ UNCHANGED <<voiceVars, wsVars, outsideStartup>>

\* `await zombie_service.start_monitoring()`
StartupStart ==
    /\ startup.pc = "start"
    /\ startup' = [startup EXCEPT !.pc = "started"]
    /\ UNCHANGED <<voiceVars, wsVars, outsideStartup>>

----------------------------------------------------------------------------
(* ConnectionManager (ws/manager.py): connect, disconnect and broadcast run *)
(* as coroutines of one event loop; a broadcast gives way to the others at  *)
(* each `await connection.send_json(message)`.                              *)

Connections == 1..MaxConnections

\* the broadcast in progress: idx is the index the list iterator will read
\* next (counted from 1); current is the connection of the send awaited;
\* attempts counts the sends started per connection; failed holds those whose
\* send raised;
\* stayed holds the connections that were in the list when the broadcast
\* began and have not been disconnected since; known holds every connection
\* ever accepted (a websocket connects once)
NoBroadcast ==
    [pc |-> "idle", idx |-> 0, current |-> 0,
     attempts |-> [c \in Connections |-> 0],
     stayed |-> {}, failed |-> {}, known |-> {}]

WsInit ==
    /\ active_connections = <<>>
    /\ broadcasting = NoBroadcast

\* list.remove(x): the first occurrence is taken out and the rest moves up
Remove(seq, x) == SelectSeq(seq, LAMBDA y : y # x)

Members(seq) == {seq[i] : i \in DOMAIN seq}

\* connect(websocket): accept, then append
Connect(c) ==
    /\ c \notin broadcasting.known
    /\ active_connections' = Append(active_connections, c)
    /\ broadcasting' = [broadcasting EXCEPT !.known = @ \cup {c}]
    /\ UNCHANGED <<voiceVars, startupVars, outsideWs>>

\* disconnect(websocket), called by the endpoint of a connection that has gone
Disconnect(c) ==
    /\ c \in Members(active_connections)
    /\ active_connections' = Remove(active_connections, c)
    /\ broadcasting' = [broadcasting EXCEPT !.stayed = @ \ {c}]
    /\ UNCHANGED <<voiceVars, startupVars, outsideWs>>

\* the for statement asks the list iterator for the next item: the item at
\* idx of the list as it is now, or the end of the loop
NextItem(b) ==
    IF b.idx <= Len(active_connections)
    THEN [b EXCEPT !.pc = "sending",
                   !.current = active_connections[b.idx],
                   !.attempts[active_connections[b.idx]] = @ + 1,
                   !.idx = @ + 1]
    ELSE [b EXCEPT !.pc = "done"]

\* broadcast(message) up to its first await: nothing to do for an empty list,
\* otherwise the send to the first connection is started
Broadcast ==
    /\ broadcasting.pc \in {"idle", "done"}
    /\ broadcasting' =
          IF Len(active_connections) = 0
          THEN [NoBroadcast EXCEPT !.pc = "done", !.known = broadcasting.known]
          ELSE NextItem([NoBroadcast EXCEPT
                            !.idx = 1,
                            !.stayed = Members(active_connections),
                            !.known = broadcasting.known])
    /\ UNCHANGED <<active_connections, voiceVars, startupVars, outsideWs>>

\* the awaited send_json returns or raises; the exception is logged and the
\* loop goes on with the next item
SendReturns(ok) ==
    /\ broadcasting.pc = "sending"
    /\ broadcasting' =
          NextItem([broadcasting EXCEPT
                       !.failed = IF ok THEN @ ELSE @ \cup {broadcasting.current}])
    /\ UNCHANGED <<active_connections, voiceVars, startupVars, outsideWs>>

----------------------------------------------------------------------------
(* FunyaWatcher again, one statement of a thread at a time: the monitor     *)
(* threads created by start(), and the threads of the mouse and the         *)
(* keyboard listener, which both call _on_activity.  No lock is taken       *)
(* anywhere in the class.                                                   *)

MonitorThreads == 1..MaxMonitors
Listeners == {"mouse", "keyboard"}

\* the callbacks called so far: the last one, and whether enter and exit have
\* alternated, beginning with enter
NothingCalled == [last |-> "none", alternates |-> TRUE]

Called(cb) ==
    [last |-> cb,
     alternates |->
        /\ calls.alternates
        /\ cb = "enter" => calls.last \in {"none", "exit"}
        /\ cb = "exit" => calls.last = "enter"]

ThreadsInit ==
    /\ mthreads = [m \in MonitorThreads |-> [pc |-> "none", wake_at |-> 0]]
    /\ listeners = [l \in Listeners |-> "idle"]
    /\ calls = NothingCalled

\* the monitor threads that have not returned from _monitor_activity
LiveMonitors == {m \in MonitorThreads : mthreads[m].pc \notin {"none", "ended"}}

\* start(): the flag, the time of the last activity, the listeners, and a new
\* monitor thread beside any thread of an earlier start that still sleeps
ThreadedStart ==
    /\ ~is_watching
    /\ LiveMonitors # MonitorThreads
    /\ is_watching' = TRUE
    /\ last_activity_time' = wclock
    /\ LET m == CHOOSE k \in MonitorThreads \ LiveMonitors :
                    \A j \in MonitorThreads \ LiveMonitors : k <= j
       IN mthreads' = [mthreads EXCEPT ![m] = [pc |-> "test", wake_at |-> 0]]
    /\ UNCHANGED <<wclock, inactivity_threshold, is_in_funya_mode, wpc, watched,
                   listeners, calls, outsideThreads>>

\* stop(): the flag is cleared and the listeners are told to stop; the monitor
\* thread is not joined
ThreadedStop ==
    /\ is_watching
    /\ is_watching' = FALSE
    /\ UNCHANGED <<wclock, inactivity_threshold, last_activity_time,
                   is_in_funya_mode, wpc, watched, threadVars, outsideThreads>>

\* _on_activity, lines 64-68: the time is stamped and the flag is tested
ActivityTests(l) ==
    /\ is_watching
    /\ listeners[l] = "idle"
    /\ last_activity_time' = wclock
    /\ listeners' = [listeners EXCEPT ![l] = IF is_in_funya_mode THEN "clear" ELSE "idle"]
    /\ UNCHANGED <<wclock, inactivity_threshold, is_watching, is_in_funya_mode,
                   wpc, watched, mthreads, calls, outsideThreads>>

\* line 69: self.is_in_funya_mode = False
ActivityClears(l) ==
    /\ listeners[l] = "clear"
    /\ is_in_funya_mode' = FALSE
    /\ listeners' = [listeners EXCEPT ![l] = "call"]
    /\ UNCHANGED <<wclock, inactivity_threshold, last_activity_time, is_watching,
                   wpc, watched, mthreads, calls, outsideThreads>>

\* lines 70-71: on_exit_funya_mode()
ActivityCalls(l) ==
    /\ listeners[l] = "call"
    /\ calls' = Called("exit")
    /\ listeners' = [listeners EXCEPT ![l] = "idle"]
    /\ UNCHANGED <<watcherVars, mthreads, outsideThreads>>

\* _monitor_activity, lines 99-104: the while test and the test of the idle
\* time and of the flag
MonitorTests(m) ==
    /\ mthreads[m].pc = "test"
    /\ mthreads' =
          [mthreads EXCEPT
              ![m] = IF ~is_watching THEN [pc |-> "ended", wake_at |-> 0]
                     ELSE IF IdleLongEnough(wclock - last_activity_time,
                                            inactivity_threshold)
                             /\ ~is_in_funya_mode
                     THEN [pc |-> "set", wake_at |-> 0]
                     ELSE [pc |-> "sleep", wake_at |-> wclock + POLL_SLEEP]]
    /\ UNCHANGED <<watcherVars, listeners, calls, outsideThreads>>

\* line 105: self.is_in_funya_mode = True
MonitorSets(m) ==
    /\ mthreads[m].pc = "set"
    /\ is_in_funya_mode' = TRUE
    /\ mthreads' = [mthreads EXCEPT ![m].pc = "call"]
    /\ UNCHANGED <<wclock, inactivity_threshold, last_activity_time, is_watching,
                   wpc, watched, listeners, calls, outsideThreads>>

\* lines 107-115: the message, on_enter_funya_mode(), and the sleep begins
MonitorCalls(m) ==
    /\ mthreads[m].pc = "call"
    /\ calls' = Called("enter")
    /\ mthreads' = [mthreads EXCEPT ![m] = [pc |-> "sleep", wake_at |-> wclock + POLL_SLEEP]]
    /\ UNCHANGED <<watcherVars, listeners, outsideThreads>>

\* time.sleep(1) returns, a second or more after it was called
MonitorWakes(m) ==
    /\ mthreads[m].pc = "sleep"
    /\ wclock >= mthreads[m].wake_at
    /\ mthreads' = [mthreads EXCEPT ![m] = [pc |-> "test", wake_at |-> 0]]
    /\ UNCHANGED <<watcherVars, listeners, calls, outsideThreads>>

\* a second passes; the threads run as the scheduler lets them
ThreadedTick ==
    /\ wclock < MaxWatchSeconds
    /\ wclock' = wclock + 1
    /\ UNCHANGED <<inactivity_threshold, last_activity_time, is_watching,
                   is_in_funya_mode, wpc, watched, threadVars, outsideThreads>>

ServicesInit == VoiceInit /\ StartupInit /\ WsInit /\ ThreadsInit

----------------------------------------------------------------------------
(* Performance settings and the CPU governor.  Intervals are in              *)
(* milliseconds, resize factors in thousandths.                             *)

Revisions == {"modules", "app"}

DEFAULT_FRAME_INTERVAL(rev) == IF rev = "modules" THEN 300 ELSE 2000
DEFAULT_RESIZE_FACTOR == 650
DEFAULT_SKIP_RATIO == 1
DEFAULT_CPU_THRESHOLD == 80

\* the clamps of get_performance_settings
MIN_FRAME_INTERVAL(rev) == IF rev = "modules" THEN 100 ELSE 1000
MAX_FRAME_INTERVAL == 10000
MIN_RESIZE_FACTOR == 200
MAX_RESIZE_FACTOR == 1000
MIN_SKIP_RATIO == 1
MAX_SKIP_RATIO == 5
MIN_CPU_THRESHOLD == 50
MAX_CPU_THRESHOLD == 95

\* the limits of _adjust_performance_settings
INTERVAL_CAP(rev) == IF rev = "modules" THEN 2000 ELSE 10000
RESIZE_FLOOR == 300

Min(a, b) == IF a < b THEN a ELSE b
Max(a, b) == IF a > b THEN a ELSE b

\* mutant: the upper limit is not applied
Clamp_LowerOnly(lo, hi, x) == Max(lo, x)

\* max(lo, min(hi, x))
Clamp(lo, hi, x) == Max(lo, Min(hi, x))

\* values the command line can set, the defaults and the three presets among
\* them, and values outside the clamps
FrameIntervalArgs == {50, 100, 300, 1000, 2000, 3000, 5000, 10000, 12000}
ResizeFactorArgs == {100, 200, 250, 300, 400, 600, 650, 750, 1000, 1200}
SkipRatioArgs == {0, 1, 2, 3, 5, 7}
CpuThresholdArgs == {40, 70, 80, 90, 99}

\* get_performance_settings: the values read, then clamped
GetPerformanceSettings(rev, fi, rf, sr, ct) ==
    [frame_interval |-> Clamp(MIN_FRAME_INTERVAL(rev), MAX_FRAME_INTERVAL, fi),
     resize_factor |-> Clamp(MIN_RESIZE_FACTOR, MAX_RESIZE_FACTOR, rf),
     skip_ratio |-> Clamp(MIN_SKIP_RATIO, MAX_SKIP_RATIO, sr),
     cpu_threshold |-> Clamp(MIN_CPU_THRESHOLD, MAX_CPU_THRESHOLD, ct)]

\* ZombieDetector.__init__ copies the settings
DetectorSettingsInit ==
    /\ adaptive_interval = PERFORMANCE_SETTINGS.frame_interval
    /\ resize_factor = PERFORMANCE_SETTINGS.resize_factor
    /\ skip_ratio = PERFORMANCE_SETTINGS.skip_ratio
    /\ cpu_threshold = PERFORMANCE_SETTINGS.cpu_threshold
    /\ adjusted = "none"
    /\ cpu_percent = 0

\* started without arguments
GovernorInit ==
    /\ revision = "modules"
    /\ PERFORMANCE_SETTINGS =
           GetPerformanceSettings("modules", DEFAULT_FRAME_INTERVAL("modules"),
               DEFAULT_RESIZE_FACTOR, DEFAULT_SKIP_RATIO, DEFAULT_CPU_THRESHOLD)
    /\ DetectorSettingsInit

\* started with any arguments, in either revision
GovernorAnyInit ==
    /\ revision \in Revisions
    /\ \E fi \in FrameIntervalArgs, rf \in ResizeFactorArgs,
          sr \in SkipRatioArgs, ct \in CpuThresholdArgs :
           PERFORMANCE_SETTINGS = GetPerformanceSettings(revision, fi, rf, sr, ct)
    /\ DetectorSettingsInit

\* x * 1.5 and x * 0.8
TimesOneAndAHalf(x) == (x * 3) \div 2
TimesFourFifths(x) == (x * 4) \div 5

\* mutant: a reading equal to the threshold counts as high load
HighLoad_AtThreshold(cpu, threshold) == cpu >= threshold

\* line 321: if cpu_percent > self.cpu_threshold
HighLoad(cpu, threshold) == cpu > threshold

\* _adjust_performance_settings with psutil reporting cpu
AdjustPerformanceSettings(cpu) ==
    /\ cpu_percent' = cpu
    /\ IF HighLoad(cpu, cpu_threshold)
       THEN /\ adaptive_interval' =
                   Min(TimesOneAndAHalf(PERFORMANCE_SETTINGS.frame_interval),
                       INTERVAL_CAP(revision))
            /\ resize_factor' =
                   Max(TimesFourFifths(PERFORMANCE_SETTINGS.resize_factor), RESIZE_FLOOR)
            /\ skip_ratio' = Min(PERFORMANCE_SETTINGS.skip_ratio + 1, MAX_SKIP_RATIO)
            /\ adjusted' = "high"
       ELSE /\ adaptive_interval' = PERFORMANCE_SETTINGS.frame_interval
            /\ resize_factor' = PERFORMANCE_SETTINGS.resize_factor
            /\ skip_ratio' = PERFORMANCE_SETTINGS.skip_ratio
            /\ adjusted' = "normal"
    /\ UNCHANGED <<revision, PERFORMANCE_SETTINGS, cpu_threshold, outsideGovernor>>

\* _adjust_performance_settings when psutil raises
AdjustPerformanceFails ==
    /\ adaptive_interval' = PERFORMANCE_SETTINGS.frame_interval
    /\ resize_factor' = PERFORMANCE_SETTINGS.resize_factor
    /\ skip_ratio' = PERFORMANCE_SETTINGS.skip_ratio
    /\ adjusted' = "error"
    /\ cpu_percent' = 0
    /\ UNCHANGED <<revision, PERFORMANCE_SETTINGS, cpu_threshold, outsideGovernor>>

\* CPU readings on both sides of the threshold
CpuSamples == {cpu_threshold - 1, cpu_threshold, cpu_threshold + 1, 100}

----------------------------------------------------------------------------
(* The manual trigger endpoints (routers/events.py) and the alert handlers' *)
(* debounce (zombie/callbacks.py)                                           *)

DEBOUNCE_TIMES ==
    [zombie_alert |-> 60 * TicksPerSecond,
     zombie_few |-> 30 * TicksPerSecond,
     zombie_warning |-> 30 * TicksPerSecond]

FEW_ALERT_COUNT == 2
MANY_REPORT_COUNT == 5

NoRequest ==
    [endpoint |-> "none", count |-> 0, force |-> FALSE, handler |-> "none",
     additional_data |-> FALSE, handler_force |-> FALSE, status |-> "none"]

\* the last call of a handler: what it was, what it answered, the stamp it
\* found, and when each handler last accepted a call (any call / a call that
\* went through is_callback_throttled); 0 is "never"
NothingHandled ==
    [callback_type |-> "none", force |-> FALSE, status |-> "none", at |-> 0,
     stamp_before |-> 0, accepted_before |-> 0, window_before |-> 0,
     reached_send |-> FALSE,
     accepted_at |-> [zombie_alert |-> 0, zombie_few |-> 0, zombie_warning |-> 0],
     window_at |-> [zombie_alert |-> 0, zombie_few |-> 0, zombie_warning |-> 0]]

TriggerInit ==
    /\ last_callback_times = [zombie_alert |-> 0, zombie_few |-> 0, zombie_warning |-> 0]
    /\ request = NoRequest
    /\ handled = NothingHandled

\* mutant: a call exactly one debounce time after the stamp is still throttled
Throttled_Inclusive(callback_type) ==
    now - last_callback_times[callback_type] <= DEBOUNCE_TIMES[callback_type]

\* is_callback_throttled: the answer, and the stamp it leaves when it lets the
\* call through
Throttled(callback_type) ==
    now - last_callback_times[callback_type] < DEBOUNCE_TIMES[callback_type]

\* zombie_few_alert / zombie_warning(count, frame_data, additional_data,
\* play_audio, force) up to the debounce check: a truthy additional_data that is
\* not a container makes the membership test raise; otherwise the debounce is
\* consulted unless force is set
HandlerStatus(callback_type, additional_data, force) ==
    IF additional_data THEN "error"
    ELSE IF ~force /\ Throttled(callback_type) THEN "throttled"
    ELSE "success"

\* the stamp is written only when is_callback_throttled is called and answers
\* False
HandlerStamp(callback_type, additional_data, force) ==
    IF ~additional_data /\ ~force /\ ~Throttled(callback_type)
    THEN [last_callback_times EXCEPT ![callback_type] = now]
    ELSE last_callback_times

\* what a call of a handler leaves in the record of calls: a call that raised
\* before the debounce check is neither throttled nor accepted
Handled(callback_type, additional_data, force) ==
    LET status == HandlerStatus(callback_type, additional_data, force) IN
    [callback_type |-> callback_type, force |-> force, status |-> status,
     at |-> now,
     stamp_before |-> last_callback_times[callback_type],
     accepted_before |-> handled.accepted_at[callback_type],
     window_before |-> handled.window_at[callback_type],
     reached_send |-> status = "success",
     accepted_at |->
        IF status = "success"
        THEN [handled.accepted_at EXCEPT ![callback_type] = now]
        ELSE handled.accepted_at,
     window_at |->
        IF status = "success" /\ ~force
        THEN [handled.window_at EXCEPT ![callback_type] = now]
        ELSE handled.window_at]

\* zombie_few_alert / zombie_warning(count, frame_data, additional_data,
\* play_audio, force) called with a dict or None for additional_data, as the
\* detector's _call_callback and the sync wrappers call them
AlertHandler(callback_type, force) ==
    /\ callback_type \in {"zombie_few", "zombie_warning"}
    /\ handled' = Handled(callback_type, FALSE, force)
    /\ last_callback_times' = HandlerStamp(callback_type, FALSE, force)
    /\ UNCHANGED <<request, clockVars, outsideTrigger>>

\* _zombie_alert_callback(count, frame_data, additional_data): it has no force
\* parameter and always consults the debounce
ZombieAlertCallback ==
    /\ handled' = Handled("zombie_alert", FALSE, FALSE)
    /\ last_callback_times' = HandlerStamp("zombie_alert", FALSE, FALSE)
    /\ UNCHANGED <<request, clockVars, outsideTrigger>>

\* the handler a count is routed to
HandlerFor(count) == IF count >= FEW_ALERT_COUNT THEN "zombie_few" ELSE "zombie_warning"

\* POST /api/zombie_alert: handler(count, play_audio, force) binds play_audio
\* to frame_data and force to additional_data; the handler's own play_audio
\* and force keep their defaults
ZombieAlert(count, play_audio, force) ==
    /\ LET h == HandlerFor(count)
           bound == [frame_data |-> play_audio, additional_data |-> force,
                     play_audio |-> TRUE, force |-> FALSE]
       IN
       /\ request' = [endpoint |-> "zombie_alert", count |-> count, force |-> force,
                      handler |-> h, additional_data |-> bound.additional_data,
                      handler_force |-> bound.force,
                      status |-> HandlerStatus(h, bound.additional_data, bound.force)]
       /\ last_callback_times' = HandlerStamp(h, bound.additional_data, bound.force)
       /\ handled' = Handled(h, bound.additional_data, bound.force)
    /\ UNCHANGED <<clockVars, outsideTrigger>>

\* POST /api/event "zombie_detected": handler(count); five or more are only
\* reported
ZombieDetectedEvent(count) ==
    /\ IF count >= MANY_REPORT_COUNT
       THEN /\ request' = [NoRequest EXCEPT !.endpoint = "event", !.count = count,
                                           !.status = "warning"]
            /\ UNCHANGED <<last_callback_times, handled>>
       ELSE LET h == HandlerFor(count) IN
            /\ request' = [endpoint |-> "event", count |-> count, force |-> FALSE,
                           handler |-> h, additional_data |-> FALSE,
                           handler_force |-> FALSE,
                           status |-> HandlerStatus(h, FALSE, FALSE)]
            /\ last_callback_times' = HandlerStamp(h, FALSE, FALSE)
            /\ handled' = Handled(h, FALSE, FALSE)
    /\ UNCHANGED <<clockVars, outsideTrigger>>

TriggerCounts == {0, 1, 2, 4, 5, 12}

TriggerTickSteps ==
    {DEBOUNCE_TIMES[k] : k \in DOMAIN DEBOUNCE_TIMES}
    \cup {DEBOUNCE_TIMES[k] - 1 : k \in DOMAIN DEBOUNCE_TIMES}

TriggerTick == \E d \in TriggerTickSteps : Tick(d) /\ UNCHANGED outsideTrigger /\ UNCHANGED triggerVars

----------------------------------------------------------------------------
(* start_monitoring / stop_monitoring called by coroutines of one event     *)
(* loop, and the loop tasks they create                                     *)

MaxTasks == 4

Clients == {"c1", "c2"}
TaskIds == 1..MaxTasks
NoTask == 0

MonitorInit ==
    /\ is_monitoring = FALSE
    /\ model = FALSE
    /\ monitor_task = NoTask
    /\ tasks = [k \in {} |-> "none"]
    /\ cpc = [c \in Clients |-> "idle"]
    /\ awaited = [c \in Clients |-> NoTask]

\* asyncio.create_task(self._monitor_loop(...))
CreateTask ==
    LET k == Cardinality(DOMAIN tasks) + 1 IN
    /\ k \in TaskIds
    /\ is_monitoring' = TRUE
    /\ monitor_task' = k
    /\ tasks' = [j \in DOMAIN tasks \cup {k} |-> IF j = k THEN "running" ELSE tasks[j]]

\* start_monitoring up to its first await: already monitoring returns the
\* task; a missing model is loaded first; otherwise the task is created
StartMonitoring(c) ==
    /\ cpc[c] = "idle"
    /\ IF is_monitoring
       THEN UNCHANGED <<is_monitoring, monitor_task, tasks, cpc>>
       ELSE IF ~model
       THEN /\ cpc' = [cpc EXCEPT ![c] = "loading"]
            /\ UNCHANGED <<is_monitoring, monitor_task, tasks>>
       ELSE /\ CreateTask
            /\ UNCHANGED cpc
    /\ UNCHANGED <<model, awaited, outsideMonitor>>

\* load_model: the executor returns the model; the rest of the loading is
\* still awaited
LoadModel(c) ==
    /\ cpc[c] = "loading"
    /\ model' = TRUE
    /\ cpc' = [cpc EXCEPT ![c] = "loaded"]
    /\ UNCHANGED <<is_monitoring, monitor_task, tasks, awaited, outsideMonitor>>

\* load_model returns False: start_monitoring raises
LoadModelFails(c) ==
    /\ cpc[c] = "loading"
    /\ cpc' = [cpc EXCEPT ![c] = "idle"]
    /\ UNCHANGED <<is_monitoring, model, monitor_task, tasks, awaited, outsideMonitor>>

\* start_monitoring after load_model has returned True
StartAfterLoad(c) ==
    /\ cpc[c] = "loaded"
    /\ CreateTask
    /\ cpc' = [cpc EXCEPT ![c] = "idle"]
    /\ UNCHANGED <<model, awaited, outsideMonitor>>

\* stop_monitoring up to its await
StopMonitoring(c) ==
    /\ cpc[c] = "idle"
    /\ IF ~is_monitoring \/ monitor_task = NoTask
       THEN UNCHANGED <<is_monitoring, monitor_task, tasks, cpc, awaited>>
       ELSE /\ is_monitoring' = FALSE
            /\ IF tasks[monitor_task] \notin {"done", "failed"}
               THEN /\ tasks' = [tasks EXCEPT ![monitor_task] = "cancelling"]
                    /\ cpc' = [cpc EXCEPT ![c] = "stopping"]
                    /\ awaited' = [awaited EXCEPT ![c] = monitor_task]
                    /\ UNCHANGED monitor_task
               ELSE /\ monitor_task' = NoTask
                    /\ UNCHANGED <<tasks, cpc, awaited>>
    /\ UNCHANGED <<model, outsideMonitor>>

\* stop_monitoring after the cancelled task has ended
StopAfterAwait(c) ==
    /\ cpc[c] = "stopping"
    /\ tasks[awaited[c]] = "done"
    /\ monitor_task' = NoTask
    /\ cpc' = [cpc EXCEPT ![c] = "idle"]
    /\ awaited' = [awaited EXCEPT ![c] = NoTask]
    /\ UNCHANGED <<is_monitoring, model, tasks, outsideMonitor>>

\* _monitor_loop: the while test fails, or the cancellation arrives at an await
LoopTaskEnds(k) ==
    /\ k \in DOMAIN tasks
    /\ \/ tasks[k] = "running" /\ ~is_monitoring
       \/ tasks[k] = "cancelling"
    /\ tasks' = [tasks EXCEPT ![k] = "done"]
    /\ UNCHANGED <<is_monitoring, model, monitor_task, cpc, awaited, outsideMonitor>>

\* the loop tasks that go on running iterations
RunningLoops == {k \in DOMAIN tasks : tasks[k] = "running"}

----------------------------------------------------------------------------
(* ZombieDetector (modules/zombie/detector_core.py): the stages of          *)
(* _process_detection_results, one action per stretch between two awaits    *)

history_size == 3
DEFAULT_REQUIRED_DETECTIONS == 1

MANY_THRESHOLD == 10
WARNING_THRESHOLD == 5
PRESENCE_PROBABILITY == 70

cooldown_periods ==
    [few |-> 5 * TicksPerSecond,
     warning |-> 8 * TicksPerSecond,
     many |-> 10 * TicksPerSecond]

\* mutant: the follow-up reaction is spoken without the delay
FOLLOWUP_DELAY_None == 0 * TicksPerSecond

FOLLOWUP_DELAY == TicksPerSecond \div 2

\* the thread the monitoring loop runs on, and the source tag it passes
LoopThread == "t1"
LoopSource == "detector"

NoFrame ==
    [count |-> 0, resnet_result |-> FALSE, resnet_prob |-> 0, current_time |-> 0,
     clear |-> FALSE]
NothingFired ==
    [confirmed |-> FALSE, immediate |-> "none", followup |-> "none",
     tier |-> "none", elapsed |-> 0, gate |-> "none", callback |-> "none",
     callback_count |-> 0, template |-> "none", stamp_lock |-> "unstamped",
     raised |-> {}, log |-> <<>>]

\* ZombieDetector.__init__
DetectorInit ==
    /\ detection_history = <<>>
    /\ required_consecutive_detections = DEFAULT_REQUIRED_DETECTIONS
    /\ cooldown_timestamps = [few |-> 0, warning |-> 0, many |-> 0]
    /\ lpc = "idle"
    /\ cur = NoFrame
    /\ fired = NothingFired
    /\ frames = <<>>

LastN_KeepsAll(seq, n) == seq

\* mutant: a full history drops the count just appended
LastN_DropsNewest(seq, n) == IF Len(seq) <= n THEN seq ELSE SubSeq(seq, 1, n)

\* seq[-n:]
LastN(seq, n) ==
    IF n = 0 \/ Len(seq) <= n THEN seq ELSE SubSeq(seq, Len(seq) - n + 1, Len(seq))

\* sum(1 for c in history if c > 0)
NonZeroCount(seq) == Cardinality({i \in 1..Len(seq) : seq[i] > 0})

\* line 709: enough of the recent frames had detections
Confirms(history) == NonZeroCount(history) >= required_consecutive_detections

\* react_to_zombie(count, 0.0, "immediate", ...): the preset voice played
ImmediatePreset(count) ==
    IF count >= MANY_THRESHOLD THEN "gasp"
    ELSE IF count >= WARNING_THRESHOLD THEN "altu"
    ELSE IF count > 0 THEN "sigh"
    ELSE "none"

\* the classifier alone is convinced
SensedPresence(resnet_result, resnet_prob) ==
    resnet_result /\ resnet_prob > PRESENCE_PROBABILITY

\* react_to_zombie(count, 0.0, "followup", ...): the bucket of the text spoken
FollowupBucket(count, resnet_result, resnet_prob) ==
    IF count >= MANY_THRESHOLD THEN "many"
    ELSE IF count >= WARNING_THRESHOLD THEN "warning"
    ELSE IF count > 0 THEN "few"
    ELSE IF SensedPresence(resnet_result, resnet_prob) THEN "presence"
    ELSE "none"

\* react_to_zombie(count, distance, "confirm", ...) of voice/engine.py: the
\* group of the text spoken
ConfirmTemplate(count, resnet_result, resnet_prob) ==
    IF count >= MANY_THRESHOLD THEN "many"
    ELSE IF count >= WARNING_THRESHOLD THEN "warning"
    ELSE IF count > 0 THEN "few"
    ELSE IF SensedPresence(resnet_result, resnet_prob) THEN "presence"
    ELSE "none"

\* what the callback of a tier speaks: zombie_few_alert and zombie_warning
\* pass the count and the verdict on to react_to_zombie, the callback of the
\* many tier plays its own alert
CallbackTemplate(tier, count, resnet_result, resnet_prob) ==
    IF tier = "many" THEN "alert"
    ELSE ConfirmTemplate(count, resnet_result, resnet_prob)

\* line 750: the follow-up reaction runs
FollowupDue(count, resnet_result, resnet_prob) ==
    count > 0 \/ SensedPresence(resnet_result, resnet_prob)

\* mutant: the warning threshold is tested before the many threshold
LoopTier_WarningFirst(count, resnet_result, resnet_prob) ==
    IF count >= WARNING_THRESHOLD THEN "warning"
    ELSE IF count > 0 THEN "few"
    ELSE IF SensedPresence(resnet_result, resnet_prob) THEN "few"
    ELSE "none"

\* lines 771-819: the cooldown entry the confirm alert of this frame uses
LoopTier(count, resnet_result, resnet_prob) ==
    IF count >= MANY_THRESHOLD THEN "many"
    ELSE IF count >= WARNING_THRESHOLD THEN "warning"
    ELSE IF count > 0 THEN "few"
    ELSE IF SensedPresence(resnet_result, resnet_prob) THEN "few"
    ELSE "none"

\* lines 773, 788, 806, 821: the loop's own cooldown is over
LoopCooldownOver(tier, current_time) ==
    current_time - cooldown_timestamps[tier] > cooldown_periods[tier]

\* _call_callback, lines 866-882: the type passed to the manager
NotificationType(count, resnet_result) ==
    IF count >= MANY_THRESHOLD THEN "many"
    ELSE IF count >= WARNING_THRESHOLD THEN "warning"
    ELSE IF count > 0 THEN "few"
    ELSE IF resnet_result THEN "presence"
    ELSE "few"

\* the manager is idle and would grant this frame's request, and the loop's
\* cooldown of its tier is over, when the frame arrives
AllClear(count, resnet_result, resnet_prob) ==
    /\ ~notification_active
    /\ DenyReason(LoopSource, NotificationType(count, resnet_result), now) = "pass"
    /\ LoopTier(count, resnet_result, resnet_prob) # "none"
    /\ LoopCooldownOver(LoopTier(count, resnet_result, resnet_prob), now)

\* what a stage adds to the record of the cycle
Logged(ev, at) == Append(fired.log, [ev |-> ev, at |-> at])

\* mutant: an exception in the follow-up reaction leaves its try block
Escapes_FromFollowup(stage, raised) == raised /\ stage = "followup"

\* the try/except around each reaction (lines 731-746, 751-767) and inside
\* _call_callback (857-908): what is raised inside is logged there and goes no
\* further
Escapes(stage, raised) == FALSE

\* where the cycle goes after a stage: on to the next one, or, for an
\* exception that escaped, to the except clause that ends the processing
\* (lines 838-842)
StageAfter(stage, raised, next) == IF Escapes(stage, raised) THEN "idle" ELSE next

\* lines 704-728: the frame is recorded; a confirmed frame reads the clock
ProcessFrame(count, resnet_result, resnet_prob) ==
    /\ lpc = "idle"
    /\ detection_history' = LastN(Append(detection_history, count), history_size)
    /\ frames' = Append(frames, count)
    /\ cur' = [count |-> count, resnet_result |-> resnet_result,
               resnet_prob |-> resnet_prob,
               current_time |-> IF Confirms(detection_history') THEN now ELSE 0,
               clear |-> AllClear(count, resnet_result, resnet_prob)]
    /\ IF Confirms(detection_history')
       THEN /\ fired' = [NothingFired EXCEPT !.confirmed = TRUE]
            /\ lpc' = IF count > 0 THEN "immediate"
                      ELSE IF FollowupDue(count, resnet_result, resnet_prob)
                      THEN "followup" ELSE "confirm"
       ELSE /\ fired' = NothingFired
            /\ lpc' = "idle"
    /\ UNCHANGED <<required_consecutive_detections, cooldown_timestamps,
                   clockVars, managerVars, callerVars, outsideLoop>>

\* the names modules/voice/engine.py defines
VoiceEngineNames ==
    {"speak_with_emotion", "safe_play_voice", "synthesize_direct", "speak"}

\* line 733: from ..voice.engine import react_to_zombie raises ImportError
\* for a name the module does not define
ImportRaises(name) == name \notin VoiceEngineNames

\* line 755: react_to_zombie is a local name of _process_detection_results,
\* bound only by the import of line 733, which runs for count > 0 only
Unbound(count) == count = 0 \/ ImportRaises("react_to_zombie")

\* lines 730-746: the immediate preset is played, or importing or playing it
\* raises
ImmediateReaction(raised) ==
    /\ lpc = "immediate"
    /\ fired' = [fired EXCEPT
                    !.immediate = IF raised \/ ImportRaises("react_to_zombie")
                                  THEN "failed" ELSE ImmediatePreset(cur.count),
                    !.raised = IF raised \/ ImportRaises("react_to_zombie")
                               THEN @ \cup {"immediate"} ELSE @,
                    !.log = Logged("immediate", now)]
    /\ lpc' = StageAfter("immediate", raised,
                  IF FollowupDue(cur.count, cur.resnet_result, cur.resnet_prob)
                  THEN "followup" ELSE "confirm")
    /\ UNCHANGED <<detection_history, required_consecutive_detections,
                   cooldown_timestamps, cur, frames, clockVars, managerVars,
                   callerVars, outsideLoop>>

\* lines 750-767: half a second later the follow-up reaction is spoken, or
\* the unbound name or the speaking raises
FollowupReaction(raised) ==
    /\ lpc = "followup"
    /\ now' = now + FOLLOWUP_DELAY
    /\ fired' = [fired EXCEPT
                    !.followup = IF raised \/ Unbound(cur.count) THEN "failed"
                                 ELSE FollowupBucket(cur.count, cur.resnet_result,
                                                     cur.resnet_prob),
                    !.raised = IF raised \/ Unbound(cur.count)
                               THEN @ \cup {"followup"} ELSE @,
                    !.log = Logged("followup", now + FOLLOWUP_DELAY)]
    /\ lpc' = StageAfter("followup", raised, "confirm")
    /\ UNCHANGED <<ticks, detection_history, required_consecutive_detections,
                   cooldown_timestamps, cur, frames, managerVars, callerVars,
                   outsideLoop>>

\* self.cooldown_timestamps[tier] = current_time
Stamp(tier, current_time) == [cooldown_timestamps EXCEPT ![tier] = current_time]

\* what the confirm stage found at the loop's cooldown check
GateRecord(tier, gate) ==
    [fired EXCEPT !.tier = tier, !.gate = gate,
                  !.elapsed = cur.current_time - cooldown_timestamps[tier],
                  !.log = Logged("confirm", now)]

\* lines 769-833 up to the manager's answer: the loop's cooldown check, then
\* _call_callback asks the manager for the lease; a denied request returns at
\* once and the cooldown is stamped
ConfirmStage ==
    /\ lpc = "confirm"
    /\ LET tier == LoopTier(cur.count, cur.resnet_result, cur.resnet_prob)
           kind == NotificationType(cur.count, cur.resnet_result)
       IN
       IF tier = "none"
       THEN /\ lpc' = "idle"
            /\ UNCHANGED <<fired, cooldown_timestamps, managerVars, callerVars>>
       ELSE IF ~LoopCooldownOver(tier, cur.current_time)
       THEN /\ lpc' = "idle"
            /\ fired' = GateRecord(tier, "closed")
            /\ UNCHANGED <<cooldown_timestamps, managerVars, callerVars>>
       ELSE /\ TryAcquireCheck(LoopThread, LoopSource, kind)
            /\ fired' = [GateRecord(tier, "open") EXCEPT
                            !.stamp_lock =
                                IF DenyReason(LoopSource, kind, now) = "pass"
                                THEN @ ELSE lock]
            /\ IF DenyReason(LoopSource, kind, now) = "pass"
               THEN /\ lpc' = "granted"
                    /\ UNCHANGED cooldown_timestamps
               ELSE /\ lpc' = "idle"
                    /\ cooldown_timestamps' = Stamp(tier, cur.current_time)
    /\ UNCHANGED <<detection_history, required_consecutive_detections, cur,
                   frames, clockVars, outsideLoop>>

\* the manager grants the lease and the callback is started
CallbackStart ==
    /\ lpc = "granted"
    /\ TryAcquireCommit(LoopThread)
    /\ lpc' = "callback"
    /\ UNCHANGED <<detection_history, required_consecutive_detections,
                   cooldown_timestamps, cur, fired, frames, outsideLoop>>

\* lines 895-908 and the stamp after _call_callback: the callback has run or
\* has raised, the lease is released in the finally clause, and, back in
\* _process_detection_results, the loop's cooldown is stamped
CallbackReturn(raised) ==
    /\ lpc = "callback"
    /\ ReleaseNotification(LoopThread, ret.id, LoopSource)
    /\ fired' = [fired EXCEPT !.callback = fired.tier,
                              !.callback_count = cur.count,
                              !.template =
                                  IF raised THEN "failed"
                                  ELSE CallbackTemplate(fired.tier, cur.count,
                                           cur.resnet_result, cur.resnet_prob),
                              !.stamp_lock =
                                  IF Escapes("callback", raised) THEN @ ELSE lock',
                              !.raised = IF raised THEN @ \cup {"callback"} ELSE @,
                              !.log = Logged("callback", now)]
    /\ cooldown_timestamps' =
           IF Escapes("callback", raised) THEN cooldown_timestamps
           ELSE Stamp(fired.tier, cur.current_time)
    /\ lpc' = "idle"
    /\ UNCHANGED <<detection_history, required_consecutive_detections, cur, frames,
                   outsideLoop>>

\* mutant: the release sits in an `except Exception` clause, which a
\* CancelledError passes by
FinallyReleases_NotOnCancel(outcome) == outcome # "cancelled"

\* lines 895-905: `try: await callback(..) finally: release_notification(..)`
\* runs the release however the await ends
FinallyReleases(outcome) == outcome \in {"returned", "raised", "cancelled"}

\* the task is cancelled while _process_detection_results waits in one of its
\* awaits: the CancelledError passes every `except Exception` (746, 766, 907,
\* 838) and ends the loop; raised inside the callback's await it runs the
\* finally clause of _call_callback first.  The cooldown is not stamped.
Cancelled ==
    /\ lpc \in {"immediate", "followup", "callback"}
    /\ IF lpc = "callback" /\ FinallyReleases("cancelled")
       THEN ReleaseNotification(LoopThread, ret.id, LoopSource)
       ELSE UNCHANGED <<managerVars, callerVars, clockVars>>
    /\ fired' = [fired EXCEPT !.log = Logged("cancelled", now)]
    /\ lpc' = "cancelled"
    /\ UNCHANGED <<detection_history, required_consecutive_detections,
                   cooldown_timestamps, cur, frames, outsideLoop>>

\* a later start_monitoring creates a new loop task, which takes up the frames
Restarted ==
    /\ lpc = "cancelled"
    /\ lpc' = "idle"
    /\ UNCHANGED <<detection_history, required_consecutive_detections,
                   cooldown_timestamps, cur, fired, frames, clockVars,
                   managerVars, callerVars, outsideLoop>>

\* what the detector and the classifier report for a frame
Counts == {0, 3, 7, 12}
Verdicts == {<<FALSE, 0>>, <<TRUE, 80>>}

FrameArrives(counts, verdicts, limit) ==
    /\ Len(frames) < limit
    /\ \E c \in counts, v \in verdicts : ProcessFrame(c, v[1], v[2])

\* whether a reaction or a callback raises
Outcomes == BOOLEAN

LoopStages(outcomes) ==
    \/ \E raised \in outcomes : ImmediateReaction(raised)
    \/ \E raised \in outcomes : FollowupReaction(raised)
    \/ ConfirmStage
    \/ CallbackStart
    \/ \E raised \in outcomes : CallbackReturn(raised)

LoopTickSteps ==
    {cooldown_periods[k] : k \in DOMAIN cooldown_periods}
    \cup {cooldown_periods[k] - FOLLOWUP_DELAY : k \in DOMAIN cooldown_periods}

LoopTick ==
    \E d \in LoopTickSteps :
        Tick(d) /\ UNCHANGED <<managerVars, callerVars, detectorVars, outsideLoop>>

----------------------------------------------------------------------------
(* _monitor_loop: one iteration after another.  Sleeps are in milliseconds. *)

cpu_check_interval == 10 * TicksPerSecond
SKIP_SLEEP == 100
CAPTURE_BACKOFF == 1000
ERROR_BACKOFF == 2000
MillisPerTick == 1000 \div TicksPerSecond

\* what _detect_zombies returns: None, or the count with the verdict of the
\* classifier
NoResults ==
    [none |-> TRUE, detection_count |-> 0, resnet_result |-> FALSE, resnet_prob |-> 0]

NoIteration ==
    [task |-> NoTask, why |-> "none", slept |-> 0, current_time |-> 0,
     history |-> <<>>, cooldowns |-> [few |-> 0, warning |-> 0, many |-> 0],
     frames |-> 0, skipped_run |-> 0, ratio |-> 0,
     results |-> NoResults, primary |-> 0, classifier |-> "none"]

IterationInit ==
    /\ mpc = "none"
    /\ frame_count = 0
    /\ last_cpu_check_time = 0
    /\ iter = NoIteration

\* the task whose loop body the position belongs to is still running
Alive == iter.task \in DOMAIN tasks /\ tasks[iter.task] = "running"

\* lines 256-258: the task is scheduled and opens the screen capture; when
\* mss.mss() or sct.monitors[1] raises, nothing catches it and the task ends
\* with the exception, is_monitoring left as it is
LoopBegins(k, ok) ==
    /\ k \in DOMAIN tasks
    /\ tasks[k] = "running"
    /\ k > iter.task
    /\ lpc = "idle"
    /\ iter' = [iter EXCEPT !.task = k, !.why = "none", !.slept = 0]
    /\ IF ok
       THEN /\ mpc' = "top"
            /\ UNCHANGED tasks
       ELSE /\ mpc' = "none"
            /\ tasks' = [tasks EXCEPT ![k] = "failed"]
    /\ UNCHANGED <<frame_count, last_cpu_check_time, is_monitoring, model,
                   monitor_task, cpc, awaited, clockVars, detectorVars,
                   governorVars, outsideIteration>>

\* mutant: the frames that are multiples of the ratio are the skipped ones
SkipsFrame_Multiples(n, ratio) == ratio > 1 /\ n % ratio = 0

\* line 266: the frame is skipped
SkipsFrame(n, ratio) == ratio > 1 /\ n % ratio # 0

\* lines 260-278: the while test passes, the frame is counted; a skipped frame
\* sleeps 0.1 s; otherwise the clock is read and the governor is due or not
IterationTop(limit) ==
    /\ Alive /\ mpc = "top"
    /\ is_monitoring
    /\ frame_count < limit
    /\ frame_count' = frame_count + 1
    /\ LET skipped == SkipsFrame(frame_count + 1, skip_ratio)
           due == now - last_cpu_check_time > cpu_check_interval
           snap == [iter EXCEPT !.current_time = now,
                                !.history = detection_history,
                                !.cooldowns = cooldown_timestamps,
                                !.frames = Len(frames),
                                !.ratio = skip_ratio,
                                !.skipped_run = IF skipped THEN @ + 1 ELSE 0,
                                !.results = NoResults,
                                !.primary = 0,
                                !.classifier = "none"]
       IN
       /\ iter' = IF skipped THEN [snap EXCEPT !.why = "skip", !.slept = SKIP_SLEEP]
                  ELSE [snap EXCEPT !.why = "running", !.slept = 0]
       /\ mpc' = IF skipped THEN "sleep" ELSE IF due THEN "adjust" ELSE "capture"
       /\ adjusted' = IF ~skipped /\ due THEN "pending" ELSE adjusted
    /\ UNCHANGED <<last_cpu_check_time, revision, PERFORMANCE_SETTINGS,
                   adaptive_interval, resize_factor, skip_ratio, cpu_threshold,
                   cpu_percent, clockVars, detectorVars, monitorVars,
                   outsideIteration>>

\* line 277: _adjust_performance_settings() runs
AdjustStep(samples) ==
    /\ Alive /\ mpc = "adjust" /\ adjusted = "pending"
    /\ \/ \E cpu \in samples : AdjustPerformanceSettings(cpu)
       \/ AdjustPerformanceFails

\* line 278: self.last_cpu_check_time = current_time
AdjustReturns ==
    /\ Alive /\ mpc = "adjust" /\ adjusted # "pending"
    /\ last_cpu_check_time' = iter.current_time
    /\ mpc' = "capture"
    /\ UNCHANGED <<frame_count, iter, clockVars, detectorVars, governorVars,
                   monitorVars, outsideIteration>>

\* mutant: a failed capture is passed on to the detection
AfterCapture_Always(ok) == "detect"

\* lines 281-285: a screenshot goes on to the detection, None does not
AfterCapture(ok) == IF ok THEN "detect" ELSE "sleep"

\* lines 280-285 with _capture_screen (348-380), which returns None for every
\* exception raised inside it
CaptureScreen(ok) ==
    /\ Alive /\ mpc = "capture"
    /\ mpc' = AfterCapture(ok)
    /\ iter' = IF ok THEN iter
               ELSE [iter EXCEPT !.why = "capture", !.slept = CAPTURE_BACKOFF]
    /\ UNCHANGED <<frame_count, last_cpu_check_time, clockVars, detectorVars,
                   governorVars, monitorVars, outsideIteration>>

\* how a call of the model or of the classifier ends
Raised == [status |-> "raised", count |-> 0, result |-> FALSE, prob |-> 0]
Skipped == [status |-> "skipped", count |-> 0, result |-> FALSE, prob |-> 0]
Counted(count) == [status |-> "ok", count |-> count, result |-> FALSE, prob |-> 0]
Judged(result, prob) == [status |-> "ok", count |-> 0, result |-> result, prob |-> prob]

\* the classifier was asked and every way of asking it raised
ClassifierFailed(enabled, memory, file) ==
    enabled /\ memory.status # "ok" /\ file.status = "raised"

\* mutant: an exception of the classifier reaches the except clause of
\* _detect_zombies
ClassifierAborts_OnError(enabled, memory, file) ==
    ClassifierFailed(enabled, memory, file)

\* lines 500-638: the exceptions of the in-memory classification (540), of the
\* file-based one (606) and of the whole block (632) are caught there
ClassifierAborts(enabled, memory, file) == FALSE

\* lines 399-400 and 498-638: resnet_result starts as (False, 0.0); the
\* in-memory classification, where predict_bytes exists and the image was
\* encoded, sets it and returns; otherwise the file-based classification sets
\* it; an exception in either leaves it as it was
ResnetResult(enabled, memory, file) ==
    IF enabled /\ memory.status = "ok" THEN memory
    ELSE IF enabled /\ file.status = "ok" THEN file
    ELSE Judged(FALSE, 0)

\* _detect_zombies (383-662): None when self.model.predict raised, otherwise
\* the count of the boxes with the classifier's verdict
DetectionResults(primary, enabled, memory, file) ==
    IF primary.status # "ok" \/ ClassifierAborts(enabled, memory, file)
    THEN NoResults
    ELSE [none |-> FALSE, detection_count |-> primary.count,
          resnet_result |-> ResnetResult(enabled, memory, file).result,
          resnet_prob |-> ResnetResult(enabled, memory, file).prob]

\* lines 287-291: the loop awaits _detect_zombies; for None it sleeps the frame
\* interval and goes on, _process_detection_results is not called
DetectZombies(primary, enabled, memory, file) ==
    /\ Alive /\ mpc = "detect"
    /\ LET results == DetectionResults(primary, enabled, memory, file) IN
       /\ mpc' = IF results.none THEN "sleep" ELSE "process"
       /\ iter' = [iter EXCEPT
                     !.results = results,
                     !.primary = primary.count,
                     !.classifier = IF primary.status # "ok" \/ ~enabled THEN "none"
                                    ELSE IF ClassifierFailed(enabled, memory, file)
                                    THEN "failed" ELSE "ok",
                     !.why = IF results.none THEN "detect" ELSE @,
                     !.slept = IF results.none THEN adaptive_interval ELSE @]
    /\ UNCHANGED <<frame_count, last_cpu_check_time, clockVars, detectorVars,
                   governorVars, monitorVars, outsideIteration>>

\* lines 293-300: _process_detection_results is called with the results
ProcessResults ==
    /\ Alive /\ mpc = "process"
    /\ Len(frames) = iter.frames
    /\ ProcessFrame(iter.results.detection_count, iter.results.resnet_result,
                    iter.results.resnet_prob)

\* the stages of _process_detection_results, awaited by the loop
ProcessStages ==
    /\ Alive /\ mpc = "process"
    /\ LoopStages({FALSE})

\* line 303: _process_detection_results has returned, the loop sleeps the
\* frame interval
ProcessReturns ==
    /\ Alive /\ mpc = "process"
    /\ Len(frames) > iter.frames
    /\ lpc = "idle"
    /\ mpc' = "sleep"
    /\ iter' = [iter EXCEPT !.why = "done", !.slept = adaptive_interval]
    /\ UNCHANGED <<frame_count, last_cpu_check_time, clockVars, detectorVars,
                   governorVars, monitorVars, outsideIteration>>

\* lines 308-311: an exception nothing else caught is logged and the loop
\* sleeps 2 s
IterationRaises ==
    /\ Alive /\ mpc \in {"adjust", "capture", "detect", "process"}
    /\ mpc = "process" => Len(frames) = iter.frames
    /\ mpc' = "sleep"
    /\ iter' = [iter EXCEPT !.why = "error", !.slept = ERROR_BACKOFF]
    /\ UNCHANGED <<frame_count, last_cpu_check_time, clockVars, detectorVars,
                   governorVars, monitorVars, outsideIteration>>

\* the sleep is over, the loop is back at its while test
SleepEnds ==
    /\ Alive /\ mpc = "sleep"
    /\ now' = now + iter.slept \div MillisPerTick
    /\ mpc' = "top"
    /\ UNCHANGED <<ticks, frame_count, last_cpu_check_time, iter, detectorVars,
                   governorVars, monitorVars, outsideIteration>>

\* the cancellation reaches the loop at one of its awaits, or the while test
\* fails
LoopStops(k) ==
    /\ lpc = "idle"
    /\ LoopTaskEnds(k)

LoopInit ==
    /\ ClockInit /\ ManagerInit /\ CallerInit /\ DetectorInit
    /\ GovernorInit /\ TriggerInit /\ MonitorInit /\ IterationInit
    /\ WatcherInit /\ ServicesInit

LoopNext ==
    FrameArrives(Counts, Verdicts, MaxFrames) \/ LoopStages({FALSE}) \/ LoopTick

SpecLoop == LoopInit /\ [][LoopNext]_vars

\* one detector, reactions and callbacks that may raise; the clock moves in
\* steps around the manager's global interval and the loop's longest cooldown
CycleCounts == {0, 3, 12}
CycleVerdicts == {<<FALSE, 0>>, <<TRUE, 90>>}

CycleTick ==
    \E d \in {GLOBAL_NOTIFICATION_INTERVAL, cooldown_periods.many + FOLLOWUP_DELAY} :
        Tick(d) /\ UNCHANGED <<managerVars, callerVars, detectorVars, outsideLoop>>

CycleNext ==
    FrameArrives(CycleCounts, CycleVerdicts, MaxFrames)
    \/ LoopStages(Outcomes) \/ CycleTick

SpecCycle == LoopInit /\ [][CycleNext]_vars

\* the same, with a loop task that may be cancelled at its awaits and started
\* again
CallbackNext ==
    FrameArrives(CycleCounts, CycleVerdicts, MaxFrames)
    \/ LoopStages(Outcomes) \/ Cancelled \/ Restarted \/ CycleTick

SpecCallback == LoopInit /\ [][CallbackNext]_vars

\* frames on both sides of every threshold, reactions that do not raise
BucketCounts == {0, 1, 4, 5, 9, 10}
BucketVerdicts == {<<FALSE, 90>>, <<TRUE, 70>>, <<TRUE, 71>>}

BucketNext ==
    FrameArrives(BucketCounts, BucketVerdicts, MaxFrames)
    \/ LoopStages({FALSE}) \/ CycleTick

SpecBucket == LoopInit /\ [][BucketNext]_vars

\* the History Tracker alone: any required_consecutive_detections, longer runs
\* of frames, no clock
HistoryInit ==
    /\ ClockInit /\ ManagerInit /\ CallerInit
    /\ GovernorInit /\ TriggerInit /\ MonitorInit /\ IterationInit
    /\ WatcherInit /\ ServicesInit
    /\ detection_history = <<>>
    /\ required_consecutive_detections \in 0..MaxRequired
    /\ cooldown_timestamps = [few |-> 0, warning |-> 0, many |-> 0]
    /\ lpc = "idle"
    /\ cur = NoFrame
    /\ fired = NothingFired
    /\ frames = <<>>

HistoryNext ==
    FrameArrives({0, 1, 12}, {<<FALSE, 0>>}, MaxHistoryFrames) \/ LoopStages({FALSE})

SpecHistory == HistoryInit /\ [][HistoryNext]_vars

----------------------------------------------------------------------------
(* The Notification Arbiter called from several threads *)

ArbInit ==
    /\ ClockInit /\ ManagerInit /\ CallerInit /\ DetectorInit
    /\ GovernorInit /\ TriggerInit /\ MonitorInit /\ IterationInit
    /\ WatcherInit /\ ServicesInit

ArbTick(steps) ==
    \E d \in steps : Tick(d) /\ UNCHANGED <<managerVars, callerVars, outsideArbiter>>

CallTryAcquire(threads, sources, types) ==
    \E t \in threads, s \in sources, k \in types :
        TryAcquireCheck(t, s, k) /\ UNCHANGED outsideArbiter

CallTryAcquireCommit(threads) ==
    \E t \in threads : TryAcquireCommit(t) /\ UNCHANGED outsideArbiter

CallRelease(threads, sources) ==
    \E t \in threads, s \in sources, i \in ReleaseIds :
        ReleaseNotification(t, i, s) /\ UNCHANGED outsideArbiter

CallRegisterAudio(threads) ==
    \E t \in threads :
        RegisterAudioPlayback(t, DEFAULT_AUDIO_DURATION) /\ UNCHANGED outsideArbiter

ArbCalls(threads, sources, types) ==
    \/ CallTryAcquire(threads, sources, types)
    \/ CallTryAcquireCommit(threads)
    \/ CallRelease(threads, sources)
    \/ CallRegisterAudio(threads)

\* two threads race for the lease; the clock moves in steps around the global
\* interval
ArbNext ==
    \/ ArbCalls(Threads, Sources, {"many", NoType})
    \/ ArbTick({GLOBAL_NOTIFICATION_INTERVAL - 1, GLOBAL_NOTIFICATION_INTERVAL})

SpecArb == ArbInit /\ [][ArbNext]_vars

\* one caller; the clock moves in steps around every threshold
CooldownNext == ArbCalls({"t1"}, {"detector"}, DetectionTypes) \/ ArbTick(TickSteps)

SpecCooldown == ArbInit /\ [][CooldownNext]_vars

\* one caller at a time, the manager's per-source interval set to its default
\* or to a longer one, playbacks of one, three and five seconds; the clock moves
\* in steps of one and a half to three seconds
LeaseIntervals ==
    {DEFAULT_MIN_SOURCE_INTERVAL, 5 * TicksPerSecond, 8 * TicksPerSecond}
LeaseDurations == {1 * TicksPerSecond, DEFAULT_AUDIO_DURATION, 5 * TicksPerSecond}
LeaseSteps ==
    {(3 * TicksPerSecond) \div 2, 2 * TicksPerSecond, 3 * TicksPerSecond}

LeaseInit ==
    /\ ClockInit /\ CallerInit /\ DetectorInit
    /\ \E i \in LeaseIntervals : ManagerInitWith(i)
    /\ GovernorInit /\ TriggerInit /\ MonitorInit /\ IterationInit
    /\ WatcherInit /\ ServicesInit

CallRegisterAudioOf(threads, durations) ==
    \E t \in threads, d \in durations :
        RegisterAudioPlayback(t, d) /\ UNCHANGED outsideArbiter

\* the caller releases with the id it was given last
CallReleaseLast(threads, sources) ==
    \E t \in threads, s \in sources :
        ReleaseNotification(t, notification_id, s) /\ UNCHANGED outsideArbiter

LeaseNext ==
    \/ CallTryAcquire({"t1"}, Sources, {"many", NoType})
    \/ CallTryAcquireCommit({"t1"})
    \/ CallReleaseLast({"t1"}, Sources)
    \/ CallRegisterAudioOf({"t1"}, LeaseDurations)
    \/ ArbTick(LeaseSteps)

SpecLease == LeaseInit /\ [][LeaseNext]_vars

----------------------------------------------------------------------------
(* The governor, the manual trigger and start/stop, each on its own *)

GovInit ==
    /\ ClockInit /\ ManagerInit /\ CallerInit /\ DetectorInit
    /\ GovernorAnyInit /\ TriggerInit /\ MonitorInit /\ IterationInit
    /\ WatcherInit /\ ServicesInit

GovNext ==
    \/ \E cpu \in CpuSamples : AdjustPerformanceSettings(cpu)
    \/ AdjustPerformanceFails

SpecGov == GovInit /\ [][GovNext]_vars

TrigInit ==
    /\ ClockInit /\ ManagerInit /\ CallerInit /\ DetectorInit
    /\ GovernorInit /\ TriggerInit /\ MonitorInit /\ IterationInit
    /\ WatcherInit /\ ServicesInit

TrigNext ==
    \/ \E c \in TriggerCounts, p \in BOOLEAN, f \in BOOLEAN : ZombieAlert(c, p, f)
    \/ \E c \in TriggerCounts : ZombieDetectedEvent(c)
    \/ TriggerTick

SpecTrigger == TrigInit /\ [][TrigNext]_vars

\* the handlers called directly, forced and not, at times on both sides of the
\* debounce
DebounceNext ==
    \/ \E h \in {"zombie_few", "zombie_warning"}, f \in BOOLEAN : AlertHandler(h, f)
    \/ ZombieAlertCallback
    \/ TriggerTick

SpecDebounce == TrigInit /\ [][DebounceNext]_vars

VoiceNext ==
    \/ \E k \in MessageTypes, msg \in Messages, c \in MessageCooldowns :
          IsMessageDuplicate(k, msg, c)
    \/ VoiceTick

SpecVoice == TrigInit /\ [][VoiceNext]_vars

StartupNext ==
    \/ \E enabled \in BOOLEAN : StartupBegin(enabled)
    \/ \E ready \in BOOLEAN, took \in PollDurations : StartupPoll(ready, took)
    \/ StartupSleep
    \/ StartupStart

SpecStartup == TrigInit /\ [][StartupNext]_vars

WsNext ==
    \/ \E c \in Connections : Connect(c)
    \/ \E c \in Connections : Disconnect(c)
    \/ Broadcast
    \/ \E ok \in BOOLEAN : SendReturns(ok)

SpecWs == TrigInit /\ [][WsNext]_vars

MonInit ==
    /\ ClockInit /\ ManagerInit /\ CallerInit /\ DetectorInit
    /\ GovernorInit /\ TriggerInit /\ MonitorInit /\ IterationInit
    /\ WatcherInit /\ ServicesInit

MonNext ==
    \/ \E c \in Clients : StartMonitoring(c)
    \/ \E c \in Clients : LoadModel(c)
    \/ \E c \in Clients : LoadModelFails(c)
    \/ \E c \in Clients : StartAfterLoad(c)
    \/ \E c \in Clients : StopMonitoring(c)
    \/ \E c \in Clients : StopAfterAwait(c)
    \/ \E k \in TaskIds : LoopTaskEnds(k)

SpecMon == MonInit /\ [][MonNext]_vars

\* one client starts and stops the monitoring; the loop runs its iterations in
\* between, captures and detections succeed or fail
SessionPrimary == {Raised, Counted(0), Counted(3)}
SessionCpu == {DEFAULT_CPU_THRESHOLD, 100}

SessionInit ==
    /\ ClockInit /\ ManagerInit /\ CallerInit /\ DetectorInit
    /\ GovernorInit /\ TriggerInit /\ MonitorInit /\ IterationInit
    /\ WatcherInit /\ ServicesInit

SessionNext ==
    \/ StartMonitoring("c1")
    \/ LoadModel("c1")
    \/ StartAfterLoad("c1")
    \/ StopMonitoring("c1")
    \/ StopAfterAwait("c1")
    \/ \E k \in TaskIds : LoopStops(k)
    \/ \E k \in TaskIds, ok \in BOOLEAN : LoopBegins(k, ok)
    \/ IterationTop(MaxIterations)
    \/ AdjustStep(SessionCpu)
    \/ AdjustReturns
    \/ \E ok \in BOOLEAN : CaptureScreen(ok)
    \/ \E primary \in SessionPrimary : DetectZombies(primary, FALSE, Skipped, Skipped)
    \/ ProcessResults
    \/ ProcessStages
    \/ ProcessReturns
    \/ IterationRaises
    \/ SleepEnds

SpecSession == SessionInit /\ [][SessionNext]_vars

\* one loop that has been started, detections with the classifier switched on
\* or off, answering or raising
RunningInit ==
    /\ is_monitoring = TRUE
    /\ model = TRUE
    /\ monitor_task = 1
    /\ tasks = <<"running">>
    /\ cpc = [c \in Clients |-> "idle"]
    /\ awaited = [c \in Clients |-> NoTask]
    /\ mpc = "top"
    /\ frame_count = 0
    /\ last_cpu_check_time = 0
    /\ iter = [NoIteration EXCEPT !.task = 1]

FramesInit ==
    /\ ClockInit /\ ManagerInit /\ CallerInit /\ DetectorInit
    /\ GovernorInit /\ TriggerInit /\ RunningInit
    /\ WatcherInit /\ ServicesInit

FramesPrimary == {Raised, Counted(0), Counted(3), Counted(12)}
FramesMemory == {Raised, Skipped, Judged(TRUE, 90)}
FramesFile == {Raised, Judged(FALSE, 40), Judged(TRUE, 90)}

FramesNext ==
    \/ IterationTop(MaxIterations)
    \/ AdjustStep(SessionCpu)
    \/ AdjustReturns
    \/ \E ok \in BOOLEAN : CaptureScreen(ok)
    \/ \E primary \in FramesPrimary, enabled \in BOOLEAN,
          memory \in FramesMemory, file \in FramesFile :
            DetectZombies(primary, enabled, memory, file)
    \/ ProcessResults
    \/ ProcessStages
    \/ ProcessReturns
    \/ SleepEnds

SpecFrames == FramesInit /\ [][FramesNext]_vars

\* one loop that has been started with any command line, frames without
\* boxes; between two iterations more than the governor's check interval may
\* pass
SkipInit ==
    /\ ClockInit /\ ManagerInit /\ CallerInit /\ DetectorInit
    /\ GovernorAnyInit /\ TriggerInit /\ RunningInit
    /\ WatcherInit /\ ServicesInit

SkipTick ==
    /\ mpc = "top"
    /\ Tick(cpu_check_interval + 1)
    /\ UNCHANGED <<managerVars, callerVars, detectorVars, outsideLoop>>

SkipNext ==
    \/ IterationTop(MaxLoopFrames)
    \/ AdjustStep(CpuSamples)
    \/ AdjustReturns
    \/ CaptureScreen(TRUE)
    \/ DetectZombies(Counted(0), FALSE, Skipped, Skipped)
    \/ ProcessResults
    \/ ProcessReturns
    \/ SleepEnds
    \/ SkipTick

SpecSkip == SkipInit /\ [][SkipNext]_vars

\* one FunyaWatcher and the user; the second specification has the monitor
\* thread scheduled and the time pass, the user is free to act or not
FunyaInit ==
    /\ ClockInit /\ ManagerInit /\ CallerInit /\ DetectorInit
    /\ GovernorInit /\ TriggerInit /\ MonitorInit /\ IterationInit
    /\ WatcherAnyInit /\ ServicesInit

FunyaNext ==
    \/ WatcherStart
    \/ WatcherStop
    \/ OnActivity
    \/ MonitorCheck
    \/ MonitorEnter
    \/ MonitorWake
    \/ WatcherTick

SpecFunya == FunyaInit /\ [][FunyaNext]_vars

ThreadedNext ==
    \/ ThreadedStart
    \/ ThreadedStop
    \/ \E l \in Listeners : ActivityTests(l)
    \/ \E l \in Listeners : ActivityClears(l)
    \/ \E l \in Listeners : ActivityCalls(l)
    \/ \E m \in MonitorThreads : MonitorTests(m)
    \/ \E m \in MonitorThreads : MonitorSets(m)
    \/ \E m \in MonitorThreads : MonitorCalls(m)
    \/ \E m \in MonitorThreads : MonitorWakes(m)
    \/ ThreadedTick

SpecFunyaThreads == FunyaInit /\ [][ThreadedNext]_vars

SpecFunyaLive ==
    /\ FunyaInit /\ [][FunyaNext]_vars
    /\ WF_vars(MonitorCheck) /\ WF_vars(MonitorEnter) /\ WF_vars(MonitorWake)
    /\ WF_vars(WatcherTick)

----------------------------------------------------------------------------
(* Claims about the detector's confirmation and reaction stages *)

\* C4 (as stated, monitoring-loop half): the loop's per-tier cooldown P blocks
\* a Confirm request of a tier only while less than P seconds lie between it
\* and the request of that tier the loop last stamped; a request made exactly
\* P seconds after it, or later, passes the loop's gate.
C4_LoopAllowsAtPeriod ==
    (fired.gate = "closed" /\ cur.count > 0)
        => fired.elapsed < cooldown_periods[fired.tier]

C6_PresenceFollowupAlways ==
    (frames # <<>> /\ lpc = "idle" /\ cur.count = 0
        /\ SensedPresence(cur.resnet_result, cur.resnet_prob))
        => fired.followup = "presence"

----------------------------------------------------------------------------
(* Claims about the governor, the manual trigger and start/stop *)

\* C7 (as stated): for every baseline the startup clamps allow, an adjustment
\* with CPU above the threshold leaves the interval at or above the baseline
\* (above it unless the cap is reached) and the resize factor at or below the
\* baseline (below it unless the floor is reached), and an adjustment with CPU
\* at or below the threshold restores both exactly to the baseline.
C7_GovernorMonotonic ==
    /\ adjusted = "high" =>
           /\ adaptive_interval >= PERFORMANCE_SETTINGS.frame_interval
           /\ adaptive_interval = PERFORMANCE_SETTINGS.frame_interval
                  => adaptive_interval = INTERVAL_CAP(revision)
           /\ resize_factor <= PERFORMANCE_SETTINGS.resize_factor
           /\ resize_factor = PERFORMANCE_SETTINGS.resize_factor
                  => resize_factor = RESIZE_FLOOR
    /\ adjusted = "normal" =>
           /\ adaptive_interval = PERFORMANCE_SETTINGS.frame_interval
           /\ resize_factor = PERFORMANCE_SETTINGS.resize_factor

\* C8 (as stated): a manual trigger invoked with force=true reaches its alert
\* handler with force in effect and the alert is delivered, whatever the count
\* and however recently an alert of that kind fired.
C8_ForceAlwaysDelivers ==
    (request.endpoint = "zombie_alert" /\ request.force)
        => (request.handler_force /\ request.status = "success")

\* C10 (as stated): at most one monitoring loop task runs at any time, for
\* every interleaving of start_monitoring and stop_monitoring calls.
C10_SingleLoopTask == Cardinality(RunningLoops) <= 1

----------------------------------------------------------------------------
(* Claims about the Notification Arbiter *)

\* C1: between two grants there is always a call of release_notification: no
\* call returns granted=true while a lease granted earlier is still held, so
\* at most one lease is outstanding, whatever the interleaving of the callers.
C1_SingleLease ==
    /\ grants_since_release <= 1
    /\ grants_since_release = 1 => notification_active
    /\ \A t \in Threads : apc[t] = "commit" => lock = t /\ ~notification_active

\* a caller has been denied because another caller holds the lease
C1_Witness ==
    /\ notification_active
    /\ grants_since_release = 1
    /\ ret.op = "acquire" /\ ~ret.ok /\ ret.reason = "active"

\* C2: release_notification with an id that was never granted or was already
\* released leaves the state of the manager unchanged; in particular it does
\* not end a lease held under another id.
C2_ReleaseUnknownIdIsNoOp ==
    (ret.op = "release" /\ "notification_active" \in ret.changed)
        => ret.id = notification_id

\* C3 as stated: a denied try_acquire_notification leaves all state of the
\* manager unchanged, the audio-playback fields included, whichever check
\* denied.
C3_DenialChangesNothing ==
    (ret.op = "acquire" /\ ~ret.ok) => ret.changed = {}

\* C3 as amended: a denied try_acquire_notification leaves all state of the
\* manager unchanged, except that a call denied by the type cooldown (the
\* fifth check) resets audio_playing to false (the fourth check found the
\* estimated playback time over).
C3_DenialChangesOnlyStaleAudioFlag ==
    (ret.op = "acquire" /\ ~ret.ok) =>
        /\ ret.changed \subseteq {"audio_playing"}
        /\ ret.changed # {} => ret.reason = "type"

\* a call was denied by the type cooldown and cleared the stale playback flag
C3_Witness ==
    /\ ret.op = "acquire" /\ ~ret.ok /\ ret.reason = "type"
    /\ ret.changed = {"audio_playing"} /\ ~audio_playing

\* C9: a lease whose holder never releases it ends once the estimated playback
\* time is over: a try_acquire made when that time, the global and per-source
\* intervals and the type cooldown have all elapsed is not denied.
C9_LeaseExpires ==
    [][\A t \in Threads, s \in Sources, k \in DetectionTypes :
         (/\ TryAcquireCheck(t, s, k)
          /\ now - last_notification_time >= DEFAULT_AUDIO_DURATION + AUDIO_MARGIN
          /\ now - last_notification_time >= estimated_audio_duration
          /\ ~GlobalIntervalTooShort(now)
          /\ ~SourceTooSoon(s, now)
          /\ ~AudioStillPlaying(now)
          /\ ~TypeCoolingDown(k, now))
         => DenyReason(s, k, now) = "pass"]_vars

-----------------------------------------------------------------------------
\* The reactions of one confirmed cycle

\* the cycle of the current frame has run to its end
CycleDone == lpc = "idle" /\ fired.confirmed

\* the events of the cycle so far
Events == {fired.log[i].ev : i \in DOMAIN fired.log}

Rank(ev) ==
    CASE ev = "immediate" -> 1
      [] ev = "followup" -> 2
      [] ev = "confirm" -> 3
      [] OTHER -> 4

\* C14: within one confirmed cycle the immediate reaction comes first, the
\* follow-up reaction half a second or more after it, the confirm attempt
\* last; and the callback runs only under a lease the manager granted
C14_CycleOrder ==
    /\ \A i, j \in DOMAIN fired.log :
           i < j => /\ Rank(fired.log[i].ev) < Rank(fired.log[j].ev)
                    /\ fired.log[i].at <= fired.log[j].at
                    /\ fired.log[j].ev = "followup"
                          => fired.log[j].at >= fired.log[i].at + TicksPerSecond \div 2
    /\ lpc = "followup" => (cur.count > 0 => "immediate" \in Events)
    /\ lpc = "callback"
          => /\ fired.gate = "open"
             /\ ret.op = "acquire" /\ ret.ok /\ ret.id > 0
             /\ notification_active
    /\ fired.callback # "none" => fired.gate = "open" /\ "confirm" \in Events

\* a cycle that ran all of its stages, the callback included
C14_Witness ==
    CycleDone /\ Events = {"immediate", "followup", "confirm", "callback"}

\* C15 (as stated): a confirmed frame of 12 bodies that the classifier rates
\* positive at 0.9, arriving when the manager is idle and every cooldown is
\* over, has the immediate preset played, is classified 'many', is granted the
\* lease, and has the callback of the many tier invoked with the count 12.
C15_TwelveBodiesAlert ==
    (/\ CycleDone
     /\ cur.count = 12 /\ cur.resnet_result /\ cur.resnet_prob = 90
     /\ cur.clear)
        => /\ fired.immediate = ImmediatePreset(12)
           /\ fired.tier = "many"
           /\ fired.gate = "open"
           /\ fired.callback = "many"
           /\ fired.callback_count = 12

-----------------------------------------------------------------------------
\* The manager's grants

\* the last call that returned was try_acquire_notification
Acquired == ret.op = "acquire" /\ ret.ok
Denied == ret.op = "acquire" /\ ~ret.ok

\* C16: a source that was granted a lease is denied by try_acquire as long as
\* its per-source minimum interval has not elapsed since that grant, whatever
\* the type it asks with; in particular, with a per-source interval of 5 s, a
\* call 2 s after the grant is denied
C16_SourceWaitsItsInterval ==
    \A s \in DOMAIN ledger.granted_at :
        now - ledger.granted_at[s] < min_source_interval
           => \A k \in DetectionTypes : DenyReason(s, k, now) # "pass"

\* with a per-source interval of 5 s, a source asks again 2 s after its grant,
\* the lease already released, and is denied
C16_Witness ==
    /\ min_source_interval = 5 * TicksPerSecond
    /\ Denied
    /\ ~notification_active
    /\ ret.source \in DOMAIN ledger.granted_at
    /\ ret.at - ledger.granted_at[ret.source] = 2 * TicksPerSecond

\* C17: a granted try_acquire leaves the manager Active with the global, the
\* per-source and the per-type timestamp equal to the time of the grant, and
\* returns an id above zero and above every id granted before; a denied call
\* returns 0, which is the id of no lease
C17_GrantStampsAndFreshId ==
    /\ Acquired =>
          /\ notification_active
          /\ last_notification_time = ret.at
          /\ ret.source \in DOMAIN last_source_time
          /\ last_source_time[ret.source] = ret.at
          /\ ret.detection_type # NoType
                => last_notification_by_type[ret.detection_type] = ret.at
          /\ ret.id > 0
          /\ \A i \in ledger.earlier : i < ret.id
    /\ Denied => ret.id = 0 /\ ret.id \notin ledger.ids

\* a second lease has been granted, with a type
C17_Witness ==
    /\ Acquired
    /\ ledger.earlier # {}
    /\ ret.detection_type # NoType

\* the time between the last playback registered and the call that returned
PlaybackElapsed == ret.at - ledger.playback_at

\* C18 as stated: after register_audio_playback(d) at time t every
\* try_acquire before t + d is denied, and from t + d on the playback flag
\* denies none
C18_BlockedForDuration ==
    (ret.op = "acquire" /\ ledger.registered) =>
        /\ PlaybackElapsed < ledger.playback_duration => ~ret.ok
        /\ PlaybackElapsed >= ledger.playback_duration => ret.reason # "audio"

\* C18: after the latest register_audio_playback(d) at time t every
\* try_acquire before t + d + 0.5 s is denied, the lease released or not, and
\* from t + d + 0.5 s on the playback flag denies none
C18_BlockedForDurationAndMargin ==
    (ret.op = "acquire" /\ ledger.registered) =>
        /\ PlaybackElapsed < ledger.playback_duration + TicksPerSecond \div 2
              => ~ret.ok
        /\ PlaybackElapsed >= ledger.playback_duration + TicksPerSecond \div 2
              => ret.reason # "audio"

\* a lease was granted and released, and a call made when the duration given
\* is over but the margin is not is denied for the playback
C18_Witness ==
    /\ Denied /\ ret.reason = "audio"
    /\ ledger.registered /\ ledger.ids # {}
    /\ ~notification_active
    /\ PlaybackElapsed >= ledger.playback_duration

-----------------------------------------------------------------------------
\* Sessions of the monitoring loop

\* stop_monitoring has run to its end and nothing has been started since
StopCompleted ==
    /\ ~is_monitoring
    /\ monitor_task = NoTask
    /\ DOMAIN tasks # {}
    /\ \A c \in Clients : cpc[c] = "idle"

\* C11: after stop_monitoring has completed the detection history is empty,
\* the cooldown timestamp of every tier is back at its initial value and the
\* performance settings are back at the baseline
C11_StopResetsSession ==
    StopCompleted =>
        /\ detection_history = <<>>
        /\ cooldown_timestamps = [few |-> 0, warning |-> 0, many |-> 0]
        /\ adaptive_interval = PERFORMANCE_SETTINGS.frame_interval
        /\ resize_factor = PERFORMANCE_SETTINGS.resize_factor
        /\ skip_ratio = PERFORMANCE_SETTINGS.skip_ratio

\* C12: no error ends the monitoring loop: an exception raised while the loop
\* runs is followed by the 2 s backoff and another iteration, and a loop task
\* ends only because it was stopped or cancelled
C12_OnlyCancellationEndsLoop ==
    /\ iter.why = "error" => iter.slept = ERROR_BACKOFF /\ mpc \in {"sleep", "top"}
    /\ \A k \in DOMAIN tasks : tasks[k] # "failed"

\* C19: a frame whose detection failed is handled like a frame of count 0
\* without evidence from the classifier: a 0 is recorded in the history, no
\* reaction fires and the loop goes on
C19_FailedDetectionCountsAsZero ==
    (iter.why = "detect" /\ mpc = "sleep") =>
        /\ detection_history = LastN(Append(iter.history, 0), history_size)
        /\ cooldown_timestamps = iter.cooldowns
        /\ lpc = "idle"

\* C20: a failed capture does not end the loop: the iteration ends without the
\* detection being run, the detection history and the cooldown timestamps are
\* what they were when it began, and the loop sleeps 1 s and is back at its
\* while test
C20_CaptureFailureSkipsIteration ==
    iter.why = "capture" =>
        /\ mpc \in {"sleep", "top"}
        /\ iter.slept = 1000
        /\ tasks[iter.task] # "failed"
        /\ Len(frames) = iter.frames
        /\ detection_history = iter.history
        /\ cooldown_timestamps = iter.cooldowns

\* a capture fails in an iteration that began with a detection on record
C20_Witness ==
    /\ iter.why = "capture"
    /\ mpc = "sleep"
    /\ Alive
    /\ iter.history # <<>>

-----------------------------------------------------------------------------
\* The detection of one frame

\* the frame of this iteration has been handed to _process_detection_results
Processed == Len(frames) > iter.frames

\* C21: a failure of the classifier does not abort the detection: the results
\* are produced with the count the model gave and with the verdict (not a
\* scene, probability 0), and the frame processed from them takes no presence
\* path: no follow-up and no confirm alert for a count of 0
C21_ClassifierFailureDegrades ==
    iter.classifier = "failed" =>
        /\ ~iter.results.none
        /\ iter.why # "detect"
        /\ iter.results.detection_count = iter.primary
        /\ ~iter.results.resnet_result
        /\ iter.results.resnet_prob = 0
        /\ Processed =>
              /\ cur.count = iter.primary
              /\ ~cur.resnet_result /\ cur.resnet_prob = 0
              /\ fired.followup # "presence"
              /\ cur.count = 0 => fired.tier = "none" /\ fired.callback = "none"

\* the classifier failed on a frame without boxes that follows a confirmed
\* one, and the frame has been processed
C21_Witness ==
    /\ iter.classifier = "failed"
    /\ iter.primary = 0
    /\ Processed /\ lpc = "idle"
    /\ fired.confirmed

-----------------------------------------------------------------------------
\* Frame skipping and the performance profile

\* C22: with a skip ratio N above 1 the frame counted last is skipped exactly
\* when its number is no multiple of N; a skipped frame is followed by the
\* sleep only, without capture, detection, history update or reaction; and no
\* more than N - 1, and never more than 4, frames in a row are skipped,
\* whatever the governor did to N in between
C22_SkipsAllButEveryNth ==
    /\ iter.why = "skip" =>
          /\ iter.ratio > 1
          /\ frame_count % iter.ratio # 0
          /\ mpc \in {"sleep", "top"}
          /\ iter.results = NoResults
          /\ Len(frames) = iter.frames
          /\ detection_history = iter.history
          /\ cooldown_timestamps = iter.cooldowns
    /\ iter.why \in {"running", "capture", "detect", "done"} =>
          iter.ratio <= 1 \/ frame_count % iter.ratio = 0
    /\ iter.skipped_run <= 4
    /\ iter.skipped_run > 0 => iter.skipped_run <= iter.ratio - 1

\* as many frames as the ratio allows have been skipped in a row, under a
\* ratio the governor has raised above the baseline
C22_Witness ==
    /\ iter.why = "skip"
    /\ iter.ratio > PERFORMANCE_SETTINGS.skip_ratio
    /\ iter.skipped_run = iter.ratio - 1
    /\ iter.skipped_run >= 2

\* C23: in every state the interval lies between 0.1 s and 10 s, the resize
\* factor between 0.2 and 1.0 and the skip ratio between 1 and 5, for every
\* command line and every sequence of adjustments; before the governor's first
\* adjustment the three are the values of the construction
C23_ProfileWithinBounds ==
    /\ 100 <= adaptive_interval /\ adaptive_interval <= 10000
    /\ 200 <= resize_factor /\ resize_factor <= 1000
    /\ 1 <= skip_ratio /\ skip_ratio <= 5
    /\ adjusted = "none" =>
          /\ adaptive_interval = PERFORMANCE_SETTINGS.frame_interval
          /\ resize_factor = PERFORMANCE_SETTINGS.resize_factor
          /\ skip_ratio = PERFORMANCE_SETTINGS.skip_ratio

\* the governor has adjusted a profile whose command line was out of range on
\* all three settings, and frames have gone by since
C23_Witness ==
    /\ adjusted = "high"
    /\ frame_count >= 2
    /\ PERFORMANCE_SETTINGS.frame_interval = 10000
    /\ PERFORMANCE_SETTINGS.resize_factor = 200
    /\ PERFORMANCE_SETTINGS.skip_ratio = 5

\* C24: an adjustment whose CPU reading is at or below the threshold, or whose
\* sampling raised, leaves the interval, the resize factor and the skip ratio
\* at the baseline whatever they were before, and the loop goes on with the
\* iteration
C24_CalmOrFailedRestoresBaseline ==
    (\/ adjusted = "error"
     \/ adjusted \in {"normal", "high"} /\ cpu_percent <= cpu_threshold)
    => /\ adaptive_interval = PERFORMANCE_SETTINGS.frame_interval
       /\ resize_factor = PERFORMANCE_SETTINGS.resize_factor
       /\ skip_ratio = PERFORMANCE_SETTINGS.skip_ratio
       /\ iter.why # "error"
       /\ tasks[iter.task] = "running"

\* a reading exactly at the threshold has brought a raised skip ratio back to
\* the baseline
C24_Witness ==
    /\ mpc = "adjust"
    /\ adjusted = "normal"
    /\ cpu_percent = cpu_threshold
    /\ iter.ratio > PERFORMANCE_SETTINGS.skip_ratio
    /\ skip_ratio = PERFORMANCE_SETTINGS.skip_ratio

-----------------------------------------------------------------------------
\* The detection history as a window

\* C29: the history never holds more than history_size counts; it equals, in
\* the order of recording, the last min(k, history_size) of the k counts
\* recorded so far, so that recording into a full history drops the oldest
\* count and no other
C29_HistoryIsLastWindow ==
    /\ Len(detection_history) <= history_size
    /\ Len(detection_history) = Min(Len(frames), history_size)
    /\ \A i \in 1..Len(detection_history) :
           detection_history[i] = frames[Len(frames) - Len(detection_history) + i]

\* two counts have been pushed out of a full history whose oldest and newest
\* counts differ from each other and from the first count pushed out
C29_Witness ==
    /\ Len(frames) = history_size + 2
    /\ Len(detection_history) = history_size
    /\ detection_history[1] # frames[1]
    /\ detection_history[1] # detection_history[history_size]

-----------------------------------------------------------------------------
\* Stopping the loop

\* C27 (as stated): once stop_monitoring has been called and has returned, the
\* loop has terminated: is_monitoring is false, monitor_task is cleared and no
\* loop task is left that could start another capture, detection or reaction.
C27_StopEndsLoop ==
    (monitor_task = NoTask /\ DOMAIN tasks # {} /\ \A c \in Clients : cpc[c] = "idle")
        => /\ ~is_monitoring
           /\ \A k \in DOMAIN tasks : tasks[k] \in {"done", "failed"}

-----------------------------------------------------------------------------
\* The reactions and the manager

\* C25 (as stated): every processed frame with a positive count has its
\* Immediate reaction fired, and its Followup reaction too, whatever the state
\* of the manager and of the cooldowns of the tiers: neither of the two asks
\* the manager.
C25_ReactionsFireUngated ==
    (CycleDone /\ cur.count > 0)
        => /\ fired.immediate = ImmediatePreset(cur.count)
           /\ fired.followup = FollowupBucket(cur.count, cur.resnet_result,
                                              cur.resnet_prob)

-----------------------------------------------------------------------------
\* The cooldown timestamps and the manager's lock

\* C28 (as stated): no cooldown timestamp of a tier ever decreases, and every
\* write to one, in the manager's map of types and in the loop's map of tiers,
\* happens while the manager's lock is held by the writer.
C28_StampsUnderLock ==
    /\ \A t \in Threads : apc[t] = "commit" => lock = t
    /\ fired.gate # "none" => fired.elapsed >= 0
    /\ fired.stamp_lock # "unstamped" => fired.stamp_lock = LoopThread

-----------------------------------------------------------------------------
\* The FunyaWatcher

\* the user has been idle for the threshold or longer
Idle == wclock - last_activity_time >= inactivity_threshold

\* C30 (as stated): while the watcher is watching, an idle time of
\* inactivity_threshold seconds is followed by funya mode, entered by the
\* monitor with a call of on_enter_funya_mode; an activity during funya mode
\* ends it, with a call of on_exit_funya_mode; and funya mode is entered only
\* on an idle time at or above the threshold, so never while the user acts
\* more often than that.
C30_IdleLeadsToFunya ==
    /\ [](/\ (is_watching /\ is_in_funya_mode) => watched.enter = watched.exit + 1
          /\ (is_watching /\ ~is_in_funya_mode) => watched.enter = watched.exit
          /\ wpc = "enter" => watched.gap >= inactivity_threshold)
    /\ (is_watching /\ Idle) ~> (is_in_funya_mode \/ ~is_watching)

-----------------------------------------------------------------------------
\* The alert handlers' debounce

\* the last call was made after a window opened at `opened` (0: never) and
\* answered as the debounce of its handler prescribes, forced or not
DebouncedFrom(opened) ==
    LET h == handled.callback_type
        stamp == last_callback_times[h]
    IN
    handled.status \in {"throttled", "success"} =>
        /\ (~handled.force /\ handled.at - opened < DEBOUNCE_TIMES[h]) =>
               /\ handled.status = "throttled"
               /\ ~handled.reached_send
        /\ (~handled.force /\ handled.at - opened >= DEBOUNCE_TIMES[h]) =>
               /\ handled.status = "success"
               /\ stamp = handled.at
        /\ handled.status = "throttled" => stamp = handled.stamp_before
        /\ handled.force =>
               /\ handled.status = "success"
               /\ stamp = handled.stamp_before

\* C31 (as stated): for each handler, a non-forced call made less than the
\* debounce time (60 / 30 / 30 s) after the last accepted call is throttled
\* and sends no notification, a call at or after the debounce time is accepted
\* and restarts the window, a throttled call does not restart it, and a forced
\* call is accepted without reading or changing the stamp.
C31_DebounceFromLastAccepted == DebouncedFrom(handled.accepted_before)

\* C31 (amended): the same, with the debounce time counted from the last
\* accepted call that was not forced: a forced call is accepted and leaves the
\* window where it was, so a non-forced call right after it is judged against
\* the older stamp.
C31_DebounceFromLastUnforced == DebouncedFrom(handled.window_before)

\* a non-forced call half a second short of the debounce time is throttled,
\* although a forced call was accepted in between
C31_Witness ==
    /\ handled.status = "throttled"
    /\ handled.window_before > 0
    /\ handled.at - handled.window_before = DEBOUNCE_TIMES[handled.callback_type] - 1
    /\ handled.accepted_before > handled.window_before

-----------------------------------------------------------------------------
\* The duplicate filter of the voice modules

\* C32 (as stated): is_message_duplicate(type, message, cooldown) answers true
\* exactly when the same message was accepted for that type less than cooldown
\* earlier, so the same (type, message) is accepted at most once within any
\* window of cooldown, whatever other messages of the type are checked in
\* between.
C32_DuplicateIffAcceptedInWindow ==
    checked.message_type # "none" =>
        (checked.duplicate <=>
            /\ checked.accepted_before > 0
            /\ checked.at - checked.accepted_before < checked.cooldown)

-----------------------------------------------------------------------------
\* The wait for the speech engine at startup

\* C33 (as stated): start_zombie_monitoring stops waiting only when the engine
\* reports ready or when the accumulated waiting time has reached max_wait =
\* 15 s, polling every 0.3 s for the first 5 s and every 1 s afterwards; in
\* either case it then starts the monitoring.
C33_WaitsUntilReadyOrMaxWait ==
    /\ startup.pc \in {"start", "started"} =>
          \/ startup.ready
          \/ startup.waited >= max_wait
    /\ startup.pc = "sleep" =>
          startup.interval =
             IF startup.waited <= SWITCH_AFTER THEN FIRST_INTERVAL ELSE LATER_INTERVAL

-----------------------------------------------------------------------------
\* The lease of the loop's callback

\* C34: every lease granted to the loop's confirm path is released before
\* _call_callback is left, whether the callback returns, raises, or the task
\* is cancelled while the callback runs: the Arbiter is active only while the
\* loop is inside the callback, and the loop's source is active only then.
C34_LeaseReleasedOnEveryExit ==
    /\ notification_active => lpc = "callback"
    /\ LoopSource \in active_sources => lpc = "callback"

\* the task was cancelled inside the callback and the finally clause gave the
\* lease back
C34_Witness ==
    /\ lpc = "cancelled"
    /\ Len(fired.log) >= 2
    /\ fired.log[Len(fired.log)].ev = "cancelled"
    /\ fired.log[Len(fired.log) - 1].ev = "confirm"
    /\ ret.op = "release" /\ ret.ok
    /\ ~notification_active

-----------------------------------------------------------------------------
\* The loop's cooldown after an attempt that was not delivered

\* the confirm stage found its gate open, asked the manager and was denied:
\* no callback ran
Undelivered ==
    /\ lpc = "idle"
    /\ fired.gate = "open"
    /\ fired.callback = "none"
    /\ ret.op = "acquire" /\ ~ret.ok

\* C35 (as stated): when a confirm attempt is not delivered because the
\* manager denies the lease, the loop's cooldown timestamp of the tier is left
\* as it was, so the next confirmed frame of the tier may attempt again
\* without waiting out the loop's cooldown.
C35_UndeliveredKeepsStamp ==
    Undelivered =>
        /\ cooldown_timestamps[fired.tier] = cur.current_time - fired.elapsed
        /\ LoopCooldownOver(fired.tier, cur.current_time)

-----------------------------------------------------------------------------
\* The monitoring flag and the loop task

\* C36 (as stated): whenever is_monitoring is true the monitor task exists and
\* has not finished; a loop that ended for another reason than
\* stop_monitoring (a cancellation from outside, a failure while opening the
\* capture device) is replaced by a new loop at the next start_monitoring.
\* start_monitoring returns the recorded task exactly when is_monitoring is
\* true, so the second half says that the flag is false once the task has
\* ended.
C36_MonitoringMeansLiveTask ==
    is_monitoring =>
        /\ monitor_task # NoTask
        /\ tasks[monitor_task] \in {"running", "cancelling"}

-----------------------------------------------------------------------------
\* The set of active sources

\* C37 (as stated): after any sequence of try_acquire_notification and
\* release_notification calls with arbitrary source arguments, active_sources
\* is empty whenever the manager is idle and holds exactly the source of the
\* holder whenever it is active, so is_source_active(s) is true only while s
\* holds the lease.
C37_ActiveSourcesIsHolder ==
    /\ ~notification_active => active_sources = {}
    /\ notification_active =>
          /\ Cardinality(active_sources) = 1
          /\ \A s \in active_sources : last_source_time[s] = last_notification_time

-----------------------------------------------------------------------------
\* The broadcast

\* C38 (as stated): a broadcast attempts a send to every connection that stays
\* in active_connections for the whole of the broadcast, exactly once each,
\* even if a send to another connection fails and even if another connection
\* is connected or disconnected while the broadcast awaits a send; with no
\* connection it sends nothing and raises nothing.
C38_EveryStayingConnectionOnce ==
    broadcasting.pc = "done" =>
        /\ \A c \in broadcasting.stayed : broadcasting.attempts[c] = 1
        /\ \A c \in Connections : broadcasting.attempts[c] <= 1

-----------------------------------------------------------------------------
\* The callbacks of the FunyaWatcher

\* C39 (as stated): on_enter_funya_mode and on_exit_funya_mode are called in
\* strict alternation, beginning with enter, for every interleaving of the
\* monitor thread with the threads of the mouse and the keyboard listener and
\* for every sequence of start and stop, a start within one polling period of
\* a stop included.
C39_CallbacksAlternate == calls.alternates

-----------------------------------------------------------------------------
\* The confirmation stage of app/zombie/detector_core.py, beside that of
\* modules/zombie/detector_core.py

\* lines 394-396: append, then pop(0) from a history longer than history_size
PopOldest(seq, n) == IF Len(seq) > n THEN Tail(seq) ELSE seq

\* the history of the app revision after the frames given
RECURSIVE AppHistory(_)
AppHistory(counts) ==
    IF counts = <<>> THEN <<>>
    ELSE PopOldest(Append(AppHistory(SubSeq(counts, 1, Len(counts) - 1)),
                          counts[Len(counts)]),
                   history_size)

\* lines 402-416: a frame without detections and a history shorter than the
\* number required return at once; then each of the last
\* required_consecutive_detections frames must have a detection
AppConfirms(history, zombie_count) ==
    /\ ~(zombie_count = 0 \/ Len(history) < required_consecutive_detections)
    /\ NonZeroCount(LastN(history, required_consecutive_detections))
          >= required_consecutive_detections

\* C40 (as stated): the two revisions of the confirmation stage act on the
\* same frames: for every sequence of counts and every
\* required_consecutive_detections in 1..history_size, a frame with a nonzero
\* count passes the confirmation of one revision exactly when it passes that
\* of the other.
C40_RevisionsConfirmSameFrames ==
    (/\ frames # <<>>
     /\ frames[Len(frames)] > 0
     /\ required_consecutive_detections \in 1..history_size)
        => /\ AppHistory(frames) = detection_history
           /\ Confirms(detection_history)
                 <=> AppConfirms(AppHistory(frames), frames[Len(frames)])

====
